---- MODULE Spec2Model ----
(***************************************************************************)
(* The workflow scheduler of package pl: a Workflow holds Steps connected  *)
(* by links (depender <- dependee), Run checks the graph (preflight) and   *)
(* then ticks: each tick gates the Pending Steps whose Upstreams are       *)
(* terminated and starts one goroutine per runnable Step.                  *)
(*                                                                         *)
(* The coordinator (the goroutine inside Run) and the Step goroutines are  *)
(* interleaved one statement group at a time; the iteration order of the   *)
(* Go map s.deps is a nondeterministic choice.                             *)
(***************************************************************************)
EXTENDS Naturals, Sequences, FiniteSets, TLC

\* ------------------------------------------------------------------ bounds
NumSteps == 3
MaxCap == 2
MaxRetryCount == 10
MaxLinks == 1
MaxDbs == 2
MaxAdds == 2
MaxUpstreams == 3
MaxInnerRuns == 2
StageSteps == 2
StageRetries == 2

\* a nil link.Dependee, a nil link.Flow
Nil == 0

\* DefaultRetryOption.MaxCount
DefaultMaxCount == 5

\* ------------------------------------------------------------ StepStatus
StepStatusPending == "Pending"
StepStatusRunning == "Running"
StepStatusFailed == "Failed"
StepStatusSucceeded == "Succeeded"
StepStatusCanceled == "Canceled"
StepStatusSkipped == "Skipped"
scanned == "scanned"

IsTerminated(st) ==
    st = StepStatusFailed \/ st = StepStatusSucceeded \/ st = StepStatusCanceled \/ st = StepStatusSkipped

\* ------------------------------------------------------------- Condition
\* Conditions are evaluated over the statuses of the Upstreams, in link order.
RECURSIVE SucceededFrom(_, _)
SucceededFrom(sts, i) ==
    IF i > Len(sts) THEN TRUE
    ELSE IF sts[i] = StepStatusFailed \/ sts[i] = StepStatusCanceled THEN FALSE
    ELSE SucceededFrom(sts, i + 1)

\* a Succeeded that lets a Canceled Upstream pass
SucceededFailedOnly(sts) == \A i \in 1..Len(sts) : sts[i] # StepStatusFailed

\* a Succeeded that a Skipped Upstream fails
SucceededOnly(sts) == \A i \in 1..Len(sts) : sts[i] = StepStatusSucceeded

\* a Succeeded that wants an Upstream
SucceededNonEmpty(sts) == Len(sts) > 0 /\ SucceededFrom(sts, 1)

Succeeded(sts) == SucceededFrom(sts, 1)

\* an Always that is no more than the default Condition
AlwaysAsSucceeded(sts) == SucceededFrom(sts, 1)

Always(sts) == TRUE

RECURSIVE FailedFrom(_, _, _)
FailedFrom(sts, i, hasFailed) ==
    IF i > Len(sts) THEN hasFailed
    ELSE IF sts[i] = StepStatusFailed THEN FailedFrom(sts, i + 1, TRUE)
    ELSE IF sts[i] = StepStatusCanceled THEN FALSE
    ELSE FailedFrom(sts, i + 1, hasFailed)

\* a Failed that answers at the first Failed Upstream
FailedAtFirst(sts) ==
    \E i \in 1..Len(sts) :
        sts[i] = StepStatusFailed /\ \A j \in 1..(i - 1) : sts[j] # StepStatusCanceled

Failed(sts) == FailedFrom(sts, 1, FALSE)

RECURSIVE SucceededOrFailedFrom(_, _)
SucceededOrFailedFrom(sts, i) ==
    IF i > Len(sts) THEN TRUE
    ELSE IF sts[i] = StepStatusCanceled THEN FALSE
    ELSE SucceededOrFailedFrom(sts, i + 1)

SucceededOrFailed(sts) == SucceededOrFailedFrom(sts, 1)

Never(sts) == FALSE

DefaultCondition(sts) == Succeeded(sts)

\* the Condition a Step carries: "nil" (none set) or one of the built-ins
CondKinds == {"nil", "Always", "Succeeded", "Failed", "SucceededOrFailed", "Never"}

\* cond := step.getCondition(); if cond == nil { cond = DefaultCondition }; cond(es)
EvalCondition(kind, sts) ==
    CASE kind = "nil" -> DefaultCondition(sts)
      [] kind = "Always" -> Always(sts)
      [] kind = "Succeeded" -> Succeeded(sts)
      [] kind = "Failed" -> Failed(sts)
      [] kind = "SucceededOrFailed" -> SucceededOrFailed(sts)
      [] kind = "Never" -> Never(sts)

\* ------------------------------------------------------------ dependency
\* link{Dependee, Flow}
Link(e) == [Dependee |-> e, Flow |-> Nil]

RECURSIVE UpstreamFrom(_, _)
UpstreamFrom(links, i) ==
    IF i > Len(links) THEN << >>
    ELSE IF links[i].Dependee # Nil
         THEN << links[i].Dependee >> \o UpstreamFrom(links, i + 1)
         ELSE UpstreamFrom(links, i + 1)

\* the Dependees of r in link order, links without Dependee left out
listUpstreamReporterOf(d, r) == UpstreamFrom(d[r], 1)

Range(seq) == {seq[i] : i \in 1..Len(seq)}

RECURSIVE SetToSeq(_)
SetToSeq(S) ==
    IF S = {} THEN << >>
    ELSE LET m == CHOOSE x \in S : \A y \in S : x <= y
         IN << m >> \o SetToSeq(S \ {m})

StatusesOf(st, es) == [i \in 1..Len(es) |-> st[es[i]]]

\* ----------------------------------------------------------------- state
VARIABLES
    deps,               \* Workflow.deps: Step -> its links, in the order they were added
    cond,               \* StepBase.cond of each Step
    wfWhen,             \* Workflow.when: "nil", "Skip" (returns false) or "When" (any other When)
    leaseBucket,        \* Workflow.leaseBucket: nil, or a channel of capacity cap holding len leases
    status,             \* StepBase.status of each Step
    errsMade,           \* Workflow.errs != nil
    errs,               \* Workflow.errs: "none" (no entry), "nil", "err" or "ErrFlow" for each Step
    oneStepTerminated,  \* Workflow.oneStepTerminated: the signal channel
    waitGroup,          \* Workflow.waitGroup counter
    isRunning,          \* Workflow.isRunning is locked
    pc,                 \* where the goroutine that called Run stands
    todo,               \* Steps the running `for step := range s.deps` has yet to visit
    cur,                \* the Step tick is about to start (blocked on the lease)
    tpc,                \* where each Step's goroutine stands
    result,             \* what the last call of Run or Reset returned
    stepErr,            \* err of the Step's goroutine: "unset", then what runStep returned
    whenRes,            \* what the Step's When returned in this Run ("uneval" if not called)
    condRes,            \* what the Step's Condition returned in this Run ("uneval" if not called)
    doCalls,            \* number of calls of the Step's Do in this Run
    retry,              \* StepBase.retry of each Step: nil or a RetryOption
    timeout,            \* StepBase.timeout of each Step is > 0
    doScript,           \* what the Step's Do returns: anything, or an error on its first calls
    numTries,           \* backOffTries.numTries of the Step's retry
    retryEnd,           \* why the retry of the Step returned ("none" if it has not)
    errOfCall,          \* the call of Do that returned the error the retry holds in err
    harness,            \* RetryOption.Run for each Step: its count, the counts it has passed
                        \* to stopIf (args), and whether the last call of the operation ended
                        \* after notAfter (late) and had true from stopIf (stopped)
    flowing,            \* the `for _, l := range s.deps[step]` of each Step's do: the index of
                        \* the next link (pos), the links whose Flow this call of do has
                        \* applied (log), the ferr of the last one, whether do returns an
                        \* ErrFlow and the From of it (failed, From), and the number of
                        \* calls of do in this Run that returned an ErrFlow (ended)
    other,              \* what a Run called from another goroutine returned last
    lastAdd,            \* the sub-graph the last Add was given
    adds,               \* number of calls of Add
    condArg,            \* the list of Upstream statuses a Condition is called with
    condRet,            \* what the Condition returned
    ctx,                \* the ctx given to Run: whether it is cancelled, and the Steps that
                        \* had been started, and were still executing, when it was
    rpc,                \* where a goroutine that called Reset stands
    rtodo,              \* Steps the `for step := range s.deps` of that Reset has yet to visit
    resetRet,           \* what that Reset returned last
    optCap,             \* the n of the WithMaxConcurrency(n) applied last (NoCap: none tracked)
    stage               \* the Stage among the Steps (step: Nil if none) and its inner Workflow

vars == << deps, cond, wfWhen, leaseBucket, status, errsMade, errs, oneStepTerminated,
           waitGroup, isRunning, pc, todo, cur, tpc, stepErr, result, whenRes, condRes,
           doCalls, retry, timeout, doScript, numTries, retryEnd, errOfCall, harness, flowing,
           other,
           lastAdd, adds, condArg, condRet, ctx, rpc, rtodo, resetRet, optCap, stage >>

\* what Add and the builders set: no step of Run or Reset changes it
config == << deps, cond, wfWhen, retry, timeout, doScript >>

\* the state of the retry of a Step, and of the call of do it is in
retrying == << numTries, retryEnd, errOfCall, harness, flowing >>

\* what no step of Run or Reset touches
\* the Reset of another goroutine
resetting == << rpc, rtodo, resetRet >>

extra == << ctx, resetting, optCap, stage >>

apart == << other, lastAdd, adds, condArg, condRet, extra >>

\* apart without the Stage
besideStage == << other, lastAdd, adds, condArg, condRet, ctx, resetting, optCap >>

\* what the scheduler of one caller, without RetryOption, never touches
aside == << retrying, apart >>

Steps == DOMAIN deps

\* make(chan struct{}, n) and the nil channel
MakeChan(n) == [isNil |-> FALSE, cap |-> n, len |-> 0, closed |-> FALSE]
NilChan == [isNil |-> TRUE, cap |-> 0, len |-> 0, closed |-> FALSE]

NoCycle == [s \in Steps |-> << >>]

Returned(call, kind, executed, steps, cycle) ==
    [call |-> call, kind |-> kind, executed |-> executed, steps |-> steps, cycle |-> cycle]

\* no Add yet
NoAdd == << >>

\* no Condition called yet
NoCondCall == [cond |-> "none", ret |-> FALSE]

NoResult == [call |-> "none", kind |-> "none", executed |-> FALSE, steps |-> {},
             cycle |-> << >>]

\* a Do that returns nil or an error as it likes, and one that returns an error on its
\* first k calls and nil from then on
\* StepBase.retry: nil, or &RetryOption{MaxCount, StopIf} (Backoff and Timer give the waits)
NoRetry == [isNil |-> TRUE, MaxCount |-> 0, StopIf |-> FALSE]
RetryOption(m, f) == [isNil |-> FALSE, MaxCount |-> m, StopIf |-> f]

AnyDo == [any |-> TRUE, fails |-> 0, panics |-> FALSE]
FailsFirst(k) == [any |-> FALSE, fails |-> k, panics |-> FALSE]
\* a Do that returns what it likes or panics
MayPanic == [any |-> TRUE, fails |-> 0, panics |-> TRUE]

\* ------------------------------------------------------------------ Init
\* Steps without RetryOption and timeout, whose Do returns what it likes
PlainSteps ==
    /\ retry = [s \in Steps |-> NoRetry]
    /\ timeout = [s \in Steps |-> FALSE]
    /\ doScript = [s \in Steps |-> AnyDo]

\* do has not been called: no link visited, no Flow applied
NoFlowYet ==
    [pos |-> 1, log |-> << >>, ferr |-> "nil", failed |-> FALSE, From |-> Nil, ended |-> 0,
     ran |-> << >>, bad |-> << >>]

\* count := uint64(0), the operation not yet called
NewHarness == [count |-> 0, args |-> << >>, late |-> FALSE, stopped |-> FALSE]

InitRetrying(n) ==
    /\ numTries = [s \in 1..n |-> 0]
    /\ retryEnd = [s \in 1..n |-> "none"]
    /\ errOfCall = [s \in 1..n |-> 0]
    /\ harness = [s \in 1..n |-> NewHarness]
    /\ flowing = [s \in 1..n |-> NoFlowYet]

\* no WithMaxConcurrency applied
NoCap == Nil - 1

\* context.Background(), not cancelled
LiveCtx == [done |-> FALSE, started |-> {}, executing |-> {}]

\* no Step is a Stage
NoStage ==
    [step |-> Nil, hasWhen |-> FALSE, errsMade |-> FALSE, status |-> StepStatusPending,
     executed |-> 0, when |-> "uneval", ret |-> "none"]

InitExtra ==
    /\ ctx = LiveCtx
    /\ rpc = "idle"
    /\ rtodo = {}
    /\ resetRet = "none"
    /\ optCap = NoCap
    /\ stage = NoStage

InitApart ==
    /\ other = "none"
    /\ lastAdd = NoAdd
    /\ adds = 0
    /\ condArg = << >>
    /\ condRet = NoCondCall
    /\ InitExtra

\* the links of a Step whose Upstreams are the set up, added in ascending order
LinksOf(up) == [i \in 1..Cardinality(up) |-> Link(SetToSeq(up)[i])]

\* WithMaxConcurrency(n): w.leaseBucket = make(chan struct{}, n)
WithMaxConcurrency(n) == MakeChan(n)

\* a Workflow of the Steps 1..n with the links d that has not run
InitWith(n, d, conds) ==
    /\ deps = d
    /\ cond \in [1..n -> conds]
    /\ wfWhen \in {"nil", "Skip", "When"}
    /\ leaseBucket \in {NilChan} \cup {WithMaxConcurrency(c) : c \in 0..MaxCap}
    /\ status = [s \in 1..n |-> StepStatusPending]
    /\ errsMade = FALSE
    /\ errs = [s \in 1..n |-> "none"]
    /\ oneStepTerminated = NilChan
    /\ waitGroup = 0
    /\ isRunning = FALSE
    /\ pc = "idle"
    /\ todo = {}
    /\ cur = Nil
    /\ tpc = [s \in 1..n |-> "none"]
    /\ stepErr = [s \in 1..n |-> "unset"]
    /\ result = NoResult
    /\ whenRes = [s \in 1..n |-> "uneval"]
    /\ condRes = [s \in 1..n |-> "uneval"]
    /\ doCalls = [s \in 1..n |-> 0]
    /\ InitRetrying(n)

InitFor(n, graphs, conds) ==
    /\ \E up \in graphs : InitWith(n, [s \in 1..n |-> LinksOf(up[s])], conds)
    /\ InitApart

\* every graph over n Steps: each Step depends on any set of Steps (itself included)
AllGraphs(n) == [1..n -> SUBSET (1..n)]

\* the acyclic graphs over n Steps, up to the naming of the Steps: the Steps are
\* numbered in a topological order
DagGraphs(n) == {up \in AllGraphs(n) : \A s \in 1..n : \A u \in up[s] : u < s}

\* A Workflow of 0..NumSteps Steps, as Add, the builders and WithOptions leave it:
\*  - any graph, cyclic ones included, with no Condition and no MaxConcurrency set, or
\*  - any acyclic graph with a Condition (nil or Always) on every Step that has an
\*    Upstream and with or without MaxConcurrency(0..MaxCap).
\* The Workflow's When is nil, Skip, or a When whose result depends on the ctx of the
\* call and is drawn at each Run. The When of a Step is drawn when tick calls it, the
\* result of Do when it returns.
Init ==
    \E n \in 0..NumSteps :
        \/ /\ InitFor(n, AllGraphs(n), {"nil"})
           /\ leaseBucket = NilChan
           /\ PlainSteps
        \/ /\ InitFor(n, DagGraphs(n), {"nil", "Always"})
           /\ \A s \in 1..n : deps[s] = << >> => cond[s] = "nil"
           /\ PlainSteps

\* --------------------------------------------------------------- helpers
\* an IsNil that answers at the first nil entry
ErrsIsNilAny(e) == \E s \in DOMAIN e : e[s] = "nil"

\* ErrWorkflow.IsNil: no entry holds a non-nil error
ErrsIsNil(e) == \A s \in DOMAIN e : e[s] \in {"none", "nil"}

\* the Steps that have an entry in the ErrWorkflow
Entries(e) == {s \in DOMAIN e : e[s] # "none"}

\* the nil ErrWorkflow
NilErrWorkflow == [isNilMap |-> TRUE, entries |-> << >>]

\* a made ErrWorkflow holding the entries of e
MakeErrWorkflow(e) == [isNilMap |-> FALSE, entries |-> [s \in Entries(e) |-> e[s]]]

\* Workflow.Err: nil when errs.IsNil(), a copy of the entries otherwise
Err == IF ErrsIsNil(errs) THEN NilErrWorkflow ELSE MakeErrWorkflow(errs)

\* an IsTerminated that answers at the first terminated Step
WorkflowIsTerminatedAny(st) == \E s \in DOMAIN st : IsTerminated(st[s])

\* Workflow.IsTerminated: every Step's status is terminated
WorkflowIsTerminated(st) == \A s \in DOMAIN st : IsTerminated(st[s])

RECURSIVE AllScannedFrom(_, _, _)
AllScannedFrom(st, es, i) ==
    IF i > Len(es) THEN TRUE
    ELSE IF st[es[i]] # scanned THEN FALSE
    ELSE AllScannedFrom(st, es, i + 1)

\* a scan that is content with one scanned Dependee
isAnyDependeeScanned(st, es) ==
    IF Len(es) = 0 THEN TRUE ELSE \E i \in 1..Len(es) : st[es[i]] = scanned

isAllDependeeScanned(st, es) == AllScannedFrom(st, es, 1)

RECURSIVE AllTerminatedFrom(_, _, _)
AllTerminatedFrom(st, es, i) ==
    IF i > Len(es) THEN TRUE
    ELSE IF ~IsTerminated(st[es[i]]) THEN FALSE
    ELSE AllTerminatedFrom(st, es, i + 1)

\* an inner loop that looks at the first Upstream only
FirstUpstreamTerminated(st, es) == IF Len(es) = 0 THEN TRUE ELSE IsTerminated(st[es[1]])

\* tick's inner loop: no Upstream makes it `continue tick`
AllUpstreamTerminated(st, es) == AllTerminatedFrom(st, es, 1)

\* preflight's last loop: a Step that is not scanned gets its Upstreams that are not scanned
RECURSIVE NotScannedFrom(_, _, _)
NotScannedFrom(st, es, i) ==
    IF i > Len(es) THEN << >>
    ELSE IF st[es[i]] # scanned
         THEN << es[i] >> \o NotScannedFrom(st, es, i + 1)
         ELSE NotScannedFrom(st, es, i + 1)

stepsInCycle(d, st) ==
    [s \in DOMAIN d |->
        IF st[s] # scanned THEN NotScannedFrom(st, listUpstreamReporterOf(d, s), 1)
        ELSE << >>]

\* The Steps the range loop of tick has to visit. The loop ranges over every Step of
\* s.deps in any order and passes over those that are not Pending; no Step becomes
\* Pending while tick runs, so only the visits of the Steps that are Pending when the
\* loop starts can do anything, and only those are kept.
\* a tick that passes over the Running Steps only
tickIsNotRunning(st, s) == st[s] # StepStatusRunning

\* tick: skip if the Step is not Pending
tickIsPending(st, s) == st[s] = StepStatusPending

TickOrder(st) == {s \in DOMAIN st : tickIsPending(st, s)}

\* s.isRunning.TryLock(): taken only if the lock is free
\* a TryLock that never fails
TryLockAlways(locked) == TRUE

TryLock(locked) == ~locked

\* s.when != nil && !s.when(ctx): Skip returns false, another When may return either
WhenReturnsFalse(w) == w \in {"Skip", "When"}
\* a Run that does not look at s.when
WhenIgnored(w) == TRUE

WhenReturnsTrue(w) == w \in {"nil", "When"}

\* what a call of Run resets in the bookkeeping of the model
NewCall ==
    /\ tpc' = [s \in Steps |-> "none"]
    /\ stepErr' = [s \in Steps |-> "unset"]
    /\ whenRes' = [s \in Steps |-> "uneval"]
    /\ condRes' = [s \in Steps |-> "uneval"]
    /\ doCalls' = [s \in Steps |-> 0]

\* a signal channel with room for the signals of all Steps but one
SignalCapShort(d) == Cardinality(DOMAIN d) - 1

\* make(chan struct{}, len(s.deps))
SignalCap(d) == Cardinality(DOMAIN d)

\* signalTick: s.oneStepTerminated <- struct{}{}
CanSignal(ch) == ~ch.isNil /\ ~ch.closed /\ ch.len < ch.cap
signalTick(ch) == [ch EXCEPT !.len = ch.len + 1]

\* ------------------------------------------------------------------- Run
\* Run, Workflow-level When returns false: every Step is set Skipped, Run returns nil
RunSkipped ==
    /\ pc = "idle" /\ TryLock(isRunning)
    /\ WhenReturnsFalse(wfWhen)
    /\ status' = [s \in Steps |-> StepStatusSkipped]
    /\ result' = Returned("Run", "nil", FALSE, {}, NoCycle)
    /\ NewCall
    /\ UNCHANGED << config, aside, leaseBucket, errsMade, errs, oneStepTerminated, waitGroup,
                    isRunning, pc, todo, cur >>

\* a check that never finds the Workflow run
HasRunNever(made) == FALSE

\* preflight: s.errs != nil
HasRun(made) == made

\* Run, preflight: the Workflow has been run
RunHasRun ==
    /\ pc = "idle" /\ TryLock(isRunning)
    /\ WhenReturnsTrue(wfWhen)
    /\ HasRun(errsMade)
    /\ result' = Returned("Run", "ErrWorkflowHasRun", FALSE, {}, NoCycle)
    /\ NewCall
    /\ UNCHANGED << config, aside, leaseBucket, status, errsMade, errs, oneStepTerminated,
                    waitGroup, isRunning, pc, todo, cur >>

\* a check that collects the Pending Steps
unexpectStatusStepsPending(st) == {s \in DOMAIN st : st[s] = StepStatusPending}

unexpectStatusSteps(st) == {s \in DOMAIN st : st[s] # StepStatusPending}

\* Run, preflight: some Step is not Pending
RunUnexpectStepInitStatus ==
    /\ pc = "idle" /\ TryLock(isRunning)
    /\ WhenReturnsTrue(wfWhen)
    /\ ~HasRun(errsMade)
    /\ unexpectStatusSteps(status) # {}
    /\ result' = Returned("Run", "ErrUnexpectStepInitStatus", FALSE,
                          unexpectStatusSteps(status), NoCycle)
    /\ NewCall
    /\ UNCHANGED << config, aside, leaseBucket, status, errsMade, errs, oneStepTerminated,
                    waitGroup, isRunning, pc, todo, cur >>

\* Run takes the lock and preflight starts scanning
RunPreflight ==
    /\ pc = "idle" /\ TryLock(isRunning)
    /\ WhenReturnsTrue(wfWhen)
    /\ ~HasRun(errsMade)
    /\ unexpectStatusSteps(status) = {}
    /\ isRunning' = TRUE
    /\ pc' = "scan"
    /\ result' = NoResult
    /\ NewCall
    /\ UNCHANGED << config, aside, leaseBucket, status, errsMade, errs, oneStepTerminated,
                    waitGroup, todo, cur >>

CanScan(s) ==
    /\ status[s] # scanned
    /\ isAllDependeeScanned(status, listUpstreamReporterOf(deps, s))

\* preflight marks one Step scanned: all its Upstreams are scanned
preflightScan(s) ==
    /\ pc = "scan"
    /\ CanScan(s)
    /\ status' = [status EXCEPT ![s] = scanned]
    /\ UNCHANGED << config, aside, leaseBucket, errsMade, errs, oneStepTerminated, waitGroup,
                    isRunning, pc, todo, cur, tpc, stepErr, result, whenRes, condRes, doCalls >>

HasCycle(cyc) == \E s \in DOMAIN cyc : cyc[s] # << >>

\* preflight: a sweep marked nothing and Steps are left not scanned: ErrCycleDependency
preflightCycle ==
    /\ pc = "scan"
    /\ \A s \in Steps : ~CanScan(s)
    /\ HasCycle(stepsInCycle(deps, status))
    /\ result' = Returned("Run", "ErrCycleDependency", FALSE, {}, stepsInCycle(deps, status))
    /\ isRunning' = FALSE
    /\ pc' = "idle"
    /\ UNCHANGED << config, aside, leaseBucket, status, errsMade, errs, oneStepTerminated,
                    waitGroup, todo, cur, tpc, stepErr, whenRes, condRes, doCalls >>

\* preflight passed: every Step back to Pending; Run makes errs and the signal channel
\* and enters the first tick
preflightPass ==
    /\ pc = "scan"
    /\ \A s \in Steps : ~CanScan(s)
    /\ ~HasCycle(stepsInCycle(deps, status))
    /\ status' = [s \in Steps |-> StepStatusPending]
    /\ errsMade' = TRUE
    /\ errs' = [s \in Steps |-> "none"]
    /\ oneStepTerminated' = MakeChan(SignalCap(deps))
    /\ todo' = TickOrder(status')
    /\ pc' = IF todo' = {} THEN "recv" ELSE "tick"
    /\ UNCHANGED << config, aside, leaseBucket, waitGroup, isRunning, cur, tpc, stepErr, result, whenRes, condRes,
                    doCalls >>

\* ------------------------------------------------------------------ tick
Visited(s) ==
    /\ todo' = todo \ {s}
    /\ pc' = IF todo' = {} THEN "recv" ELSE "tick"

\* the Step is not Pending, or one of its Upstreams is not terminated: next Step
tickContinue(s) ==
    /\ pc = "tick" /\ s \in todo
    /\ \/ ~tickIsPending(status, s)
       \/ ~AllUpstreamTerminated(status, listUpstreamReporterOf(deps, s))
    /\ Visited(s)
    /\ UNCHANGED << config, aside, leaseBucket, status, errsMade, errs, oneStepTerminated,
                    waitGroup, isRunning, cur, tpc, stepErr, result, whenRes, condRes, doCalls >>

Gated(s) ==
    /\ pc = "tick" /\ s \in todo
    /\ tickIsPending(status, s)
    /\ AllUpstreamTerminated(status, listUpstreamReporterOf(deps, s))

\* a gate that does not ask the Condition
CondIgnored(s) == TRUE

CondOf(s) == EvalCondition(cond[s], StatusesOf(status, listUpstreamReporterOf(deps, s)))

\* the Condition returns false: Canceled, signal
tickCancel(s) ==
    /\ Gated(s)
    /\ ~CondOf(s)
    /\ CanSignal(oneStepTerminated)
    /\ condRes' = [condRes EXCEPT ![s] = "false"]
    /\ status' = [status EXCEPT ![s] = StepStatusCanceled]
    /\ oneStepTerminated' = signalTick(oneStepTerminated)
    /\ Visited(s)
    /\ UNCHANGED << config, aside, leaseBucket, errsMade, errs, waitGroup, isRunning, cur, tpc, stepErr,
                    result, whenRes, doCalls >>

\* the When returns false: Skipped, signal
tickSkip(s) ==
    /\ Gated(s)
    /\ CondOf(s)
    /\ CanSignal(oneStepTerminated)
    /\ condRes' = [condRes EXCEPT ![s] = "true"]
    /\ whenRes' = [whenRes EXCEPT ![s] = "false"]
    /\ status' = [status EXCEPT ![s] = StepStatusSkipped]
    /\ oneStepTerminated' = signalTick(oneStepTerminated)
    /\ Visited(s)
    /\ UNCHANGED << config, aside, leaseBucket, errsMade, errs, waitGroup, isRunning, cur, tpc, stepErr,
                    result, doCalls >>

\* a bucket that takes one lease more than its capacity
CanLeaseOneMore(b) == b.isNil \/ b.len <= b.cap

\* s.leaseBucket <- struct{}{} does not block
CanLease(b) == b.isNil \/ b.len < b.cap
Lease(b) == IF b.isNil THEN b ELSE [b EXCEPT !.len = b.len + 1]

\* step.setStatus(StepStatusRunning); s.waitGroup.Add(1); go func ...
StartStep(s) ==
    /\ leaseBucket' = Lease(leaseBucket)
    /\ status' = [status EXCEPT ![s] = StepStatusRunning]
    /\ waitGroup' = waitGroup + 1
    /\ tpc' = [tpc EXCEPT ![s] = "runStep"]

\* Condition and When return true and a lease is free (or no leaseBucket): the Step starts
tickStart(s) ==
    /\ Gated(s)
    /\ CondOf(s)
    /\ CanLease(leaseBucket)
    /\ condRes' = [condRes EXCEPT ![s] = "true"]
    /\ whenRes' = [whenRes EXCEPT ![s] = "true"]
    /\ StartStep(s)
    /\ Visited(s)
    /\ UNCHANGED << config, aside, stepErr, errsMade, errs, oneStepTerminated, isRunning, cur, result,
                    doCalls >>

\* Condition and When return true and the leaseBucket is full: tick blocks on the send
tickBlock(s) ==
    /\ Gated(s)
    /\ CondOf(s)
    /\ ~CanLease(leaseBucket)
    /\ condRes' = [condRes EXCEPT ![s] = "true"]
    /\ whenRes' = [whenRes EXCEPT ![s] = "true"]
    /\ cur' = s
    /\ pc' = "lease"
    /\ UNCHANGED << config, aside, leaseBucket, status, errsMade, errs, oneStepTerminated,
                    waitGroup, isRunning, todo, tpc, stepErr, result, doCalls >>

\* the blocked send goes through: the Step starts
tickLease ==
    /\ pc = "lease"
    /\ CanLease(leaseBucket)
    /\ StartStep(cur)
    /\ Visited(cur)
    /\ cur' = Nil
    /\ UNCHANGED << config, aside, stepErr, errsMade, errs, oneStepTerminated, isRunning, result, whenRes, condRes,
                    doCalls >>

\* ------------------------------------------------------ the Step goroutine
\* runStep without RetryOption: do(ctx) runs the Step's Do, which returns nil or an error;
\* s.errs[step] = err
\* a runStep that records the non-nil errors only
RecordErrNonNil(e, s, err) == IF err = "nil" THEN e ELSE [e EXCEPT ![s] = err]

\* s.errs[step] = err
RecordErr(e, s, err) == [e EXCEPT ![s] = err]

\* what this call of the Step's Do may return
DoResults(s) ==
    IF doScript[s].any THEN {"nil", "err"} \cup (IF doScript[s].panics THEN {"panic"} ELSE {})
    ELSE IF doCalls[s] < doScript[s].fails THEN {"err"} ELSE {"nil"}

\* ----------------------------------------------------------------- flows
\* do, the function makeDoForStep returns: it visits the links of the Step in the order
\* of s.deps[step], applies the Flow of each link it does not pass over, and calls
\* step.Do when no Flow has failed.
\* what a Flow does when it is called: return nil, return an error, or panic
FlowResults == {"nil", "err", "panic"}

\* catchPanicAsError(f): the error f returns, or the panic of f as an error
catchPanicAsError(r) == IF r = "panic" THEN "ErrPanic" ELSE r

\* a do without the catchPanicAsError around the loop and step.Do
DoUncaught(r) == r

\* return catchPanicAsError(func() error { ...; return step.Do(ctx) })
DoCaught(r) == catchPanicAsError(r)

\* what this call of do may return once it has reached step.Do ("panic": it panics)
DoErrs(s) == {DoCaught(r) : r \in DoResults(s)}

\* Stage.Do: return s.Workflow.Run(ctx), the Run of the inner Workflow from its call to
\* its return: its When (if it has one) returns false, so its Step is set to Skipped and
\* Run returns nil; or preflight refuses the Run; or the inner Step runs and Run returns
\* nil or the ErrWorkflow. What the Stage may be after the call, ret the value returned.
StageRun(st) ==
    UNION {IF ~w
           THEN {[st EXCEPT !.status = StepStatusSkipped, !.when = "false", !.ret = "nil"]}
           ELSE IF HasRun(st.errsMade)
           THEN {[st EXCEPT !.when = "true", !.ret = "ErrWorkflowHasRun"]}
           ELSE IF st.status # StepStatusPending
           THEN {[st EXCEPT !.when = "true", !.ret = "ErrUnexpectStepInitStatus"]}
           ELSE IF st.executed >= MaxInnerRuns THEN {}
           ELSE {[st EXCEPT !.when = "true", !.errsMade = TRUE, !.executed = @ + 1,
                            !.status = StepStatusSucceeded, !.ret = "nil"],
                 [st EXCEPT !.when = "true", !.errsMade = TRUE, !.executed = @ + 1,
                            !.status = StepStatusFailed, !.ret = "ErrWorkflow"]}
           : w \in IF st.hasWhen THEN BOOLEAN ELSE {TRUE}}

\* what this call of do may return once it has reached step.Do, and what it leaves of
\* the Stage
DoOutcomes(s) ==
    IF stage.step = s
    THEN {[err |-> DoCaught(st.ret), stage |-> st] : st \in StageRun(stage)}
    ELSE {[err |-> err, stage |-> stage] : err \in DoErrs(s)}

\* a do that applies the Flow of every link whose Dependee has terminated
FlowAppliesTerminated(l, st) == l.Dependee = Nil \/ IsTerminated(st[l.Dependee])

\* a do that applies the Flow of every link
FlowAppliesAlways(l, st) == TRUE

\* the link is not passed over: it has no Dependee (an Input), or its Dependee is
\* Succeeded or Failed
FlowApplies(l, st) ==
    \/ l.Dependee = Nil
    \/ st[l.Dependee] \in {StepStatusSucceeded, StepStatusFailed}

\* the links of the Step, from index from on, whose Flow do is to apply
FlowLinks(s, from) ==
    {i \in from..Len(deps[s]) : FlowApplies(deps[s][i], status) /\ deps[s][i].Flow # Nil}

\* a loop over the links from the last to the first
LastFlowLink(s) ==
    IF FlowLinks(s, flowing[s].pos) = {} THEN Nil
    ELSE CHOOSE i \in FlowLinks(s, flowing[s].pos) :
            \A j \in FlowLinks(s, flowing[s].pos) : i >= j

\* the next link whose Flow do applies (Nil: none is left)
NextFlowLink(s) ==
    IF FlowLinks(s, flowing[s].pos) = {} THEN Nil
    ELSE CHOOSE i \in FlowLinks(s, flowing[s].pos) :
            \A j \in FlowLinks(s, flowing[s].pos) : i <= j

\* a do that goes on after a Flow that failed
FlowErrIgnored(ferr) == FALSE

\* ferr != nil
FlowFailed(ferr) == ferr # "nil"

\* one turn of the loop that applies a Flow: ferr := catchPanicAsError(l.Flow(ctx));
\* ferr != nil => do returns &ErrFlow{Err: ferr, From: l.Dependee}
applyFlow(s) ==
    /\ tpc[s] = "runStep"
    /\ ~flowing[s].failed
    /\ NextFlowLink(s) # Nil
    /\ \E r \in FlowResults :
          LET i == NextFlowLink(s)
              ferr == catchPanicAsError(r)
          IN flowing' = [flowing EXCEPT ![s] =
                 [pos |-> i + 1, log |-> Append(@.log, i), ferr |-> ferr,
                  failed |-> FlowFailed(ferr),
                  From |-> IF FlowFailed(ferr) THEN deps[s][i].Dependee ELSE @.From,
                  ended |-> @.ended,
                  ran |-> Append(@.ran, i),
                  bad |-> IF FlowFailed(ferr) THEN Append(@.bad, i) ELSE @.bad]]
    /\ UNCHANGED << config, apart, leaseBucket, status, errsMade, errs, oneStepTerminated,
                    waitGroup, isRunning, pc, todo, cur, tpc, stepErr, result, whenRes,
                    condRes, doCalls, numTries, retryEnd, errOfCall, harness >>

\* the loop is over and no Flow has failed: do calls step.Do
DoReached(s) == ~flowing[s].failed /\ NextFlowLink(s) = Nil

\* a do that goes on where the call before it stopped
NextDoResumes(f) == [f EXCEPT !.log = << >>, !.ferr = "nil", !.failed = FALSE]

\* the next call of do starts at the first link
NextDo(f) == [f EXCEPT !.pos = 1, !.log = << >>, !.ferr = "nil", !.failed = FALSE]

\* runStep without RetryOption: err = do(ctx) is the ErrFlow; s.errs[step] = err
runStepErrFlow(s) ==
    /\ tpc[s] = "runStep"
    /\ retry[s].isNil
    /\ flowing[s].failed
    /\ errs' = RecordErr(errs, s, "ErrFlow")
    /\ stepErr' = [stepErr EXCEPT ![s] = "ErrFlow"]
    /\ flowing' = [flowing EXCEPT ![s].ended = @ + 1]
    /\ tpc' = [tpc EXCEPT ![s] = "setStatus"]
    /\ UNCHANGED << config, apart, leaseBucket, status, errsMade, oneStepTerminated, waitGroup,
                    isRunning, pc, todo, cur, result, whenRes, condRes, doCalls, numTries,
                    retryEnd, errOfCall, harness >>

runStep(s) ==
    /\ tpc[s] = "runStep"
    /\ retry[s].isNil
    /\ DoReached(s)
    /\ \E o \in DoOutcomes(s) :
          /\ stage' = o.stage
          /\ IF o.err = "panic"
             THEN \* a panic of the Step's goroutine that nothing recovers ends the program
                  /\ tpc' = [t \in Steps |-> "panicked"]
                  /\ pc' = "panicked"
                  /\ UNCHANGED << errs, stepErr >>
             ELSE /\ errs' = RecordErr(errs, s, o.err)
                  /\ stepErr' = [stepErr EXCEPT ![s] = o.err]
                  /\ tpc' = [tpc EXCEPT ![s] = "setStatus"]
                  /\ pc' = pc
    /\ doCalls' = [doCalls EXCEPT ![s] = doCalls[s] + 1]
    /\ UNCHANGED << config, retrying, besideStage, leaseBucket, status, errsMade, oneStepTerminated, waitGroup,
                    isRunning, todo, cur, result, whenRes, condRes >>

\* ----------------------------------------------------------------- retry
\* runStep with a RetryOption: RetryOption.Run hands the operation
\*     err = fn(ctx); deadline passed or stopIf(count, ...) => err = Permanent(err); count++
\* to backoff.RetryNotifyWithTimer over backoff.WithMaxRetries(b, maxCount), which calls
\* it until it returns nil or a Permanent error or until the next wait is Stop.
\* a maxCount that does not look at the option
maxCountDefault(opt) == DefaultMaxCount

\* maxCount := DefaultRetryOption.MaxCount; if opt.MaxCount > 0 { maxCount = opt.MaxCount }
maxCountOf(opt) == IF opt.MaxCount > 0 THEN opt.MaxCount ELSE DefaultMaxCount

\* a WithMaxRetries that hands out one wait more
MaxRetriesStopLate(maxTries, n) == maxTries < n

\* backOffTries.NextBackOff: Stop once numTries has reached maxTries, else numTries++
MaxRetriesStop(maxTries, n) == maxTries <= n

\* RetryNotifyWithTimer starts with b.Reset(): numTries = 0
Tries(s) == IF doCalls[s] = 0 /\ flowing[s].ended = 0 THEN 0 ELSE numTries[s]

\* !notAfter.IsZero() && time.Now().After(notAfter): what it may be after a call of fn
Lates(s) == IF timeout[s] THEN BOOLEAN ELSE {FALSE}

\* stopIf != nil && stopIf(count, time.Since(start), err): what it may be
Stops(s) == IF retry[s].StopIf THEN BOOLEAN ELSE {FALSE}

\* an operation that forgets the deadline of the Step
PermanentByStopIf(late, stop) == stop

\* the operation makes err Permanent: the call ended after notAfter, or stopIf said true
IsPermanent(late, stop) == late \/ stop

\* the harness of this Run of the Step: RetryOption.Run starts with count 0
HarnessOf(s) == IF doCalls[s] = 0 /\ flowing[s].ended = 0 THEN NewHarness ELSE harness[s]

\* one call of the operation: err = fn(ctx); the deadline; stopIf(count, ...); count++
Invoked(s, late, stop) ==
    [harness EXCEPT ![s] =
        [count |-> HarnessOf(s).count + 1,
         args |-> IF retry[s].StopIf THEN Append(HarnessOf(s).args, HarnessOf(s).count)
                  ELSE HarnessOf(s).args,
         late |-> late, stopped |-> stop]]

\* the call of the operation that ended the retry for the reason why did so with these
\* answers of the deadline and of stopIf
EndsWith(why, late, stop) ==
    /\ why = "notAfter" => late
    /\ why = "stopIf" => stop
    /\ why \in {"maxRetries", "backoffStop"} => ~IsPermanent(late, stop)

\* the operation returns an error that is not Permanent and the next wait is not Stop:
\* the timer runs and the operation is called again
retryAgain(s) ==
    /\ tpc[s] = "runStep"
    /\ ~retry[s].isNil
    /\ DoReached(s)
    /\ \E o \in DoOutcomes(s) :
          /\ o.err # "nil"
          /\ stepErr' = [stepErr EXCEPT ![s] = o.err]
          /\ stage' = o.stage
    /\ \E late \in Lates(s), stop \in Stops(s) :
          /\ ~IsPermanent(late, stop)
          /\ harness' = Invoked(s, late, stop)
    /\ ~MaxRetriesStop(maxCountOf(retry[s]), Tries(s))
    /\ doCalls' = [doCalls EXCEPT ![s] = doCalls[s] + 1]
    /\ numTries' = [numTries EXCEPT ![s] = Tries(s) + 1]
    /\ errOfCall' = [errOfCall EXCEPT ![s] = doCalls[s] + 1]
    /\ retryEnd' = [retryEnd EXCEPT ![s] = "none"]
    /\ flowing' = [flowing EXCEPT ![s] = NextDo(@)]
    /\ UNCHANGED << config, besideStage, leaseBucket, status, errsMade, errs, oneStepTerminated,
                    waitGroup, isRunning, pc, todo, cur, tpc, result, whenRes, condRes >>

\* why RetryNotifyWithTimer returns after a call of the operation that returned err
RetryEnds(s, err) ==
    IF err = "nil" THEN {"nil"}
    ELSE (IF timeout[s] THEN {"notAfter"} ELSE {})
         \cup (IF retry[s].StopIf THEN {"stopIf"} ELSE {})
         \cup (IF MaxRetriesStop(maxCountOf(retry[s]), Tries(s)) THEN {"maxRetries"}
               ELSE {"backoffStop"})

\* the operation returns nil or a Permanent error, or the next wait is Stop (from
\* WithMaxRetries or from the Backoff of the option): the retry returns err,
\* s.errs[step] = err
retryReturn(s) ==
    /\ tpc[s] = "runStep"
    /\ ~retry[s].isNil
    /\ DoReached(s)
    /\ \E o \in DoOutcomes(s) :
          /\ \E why \in RetryEnds(s, o.err), late \in Lates(s), stop \in Stops(s) :
                /\ EndsWith(why, late, stop)
                /\ retryEnd' = [retryEnd EXCEPT ![s] = why]
                /\ harness' = Invoked(s, late, stop)
          /\ errs' = RecordErr(errs, s, o.err)
          /\ stepErr' = [stepErr EXCEPT ![s] = o.err]
          /\ stage' = o.stage
    /\ doCalls' = [doCalls EXCEPT ![s] = doCalls[s] + 1]
    /\ numTries' = [numTries EXCEPT ![s] = Tries(s)]
    /\ errOfCall' = [errOfCall EXCEPT ![s] = doCalls[s] + 1]
    /\ tpc' = [tpc EXCEPT ![s] = "setStatus"]
    /\ UNCHANGED << config, besideStage, leaseBucket, status, errsMade, oneStepTerminated,
                    waitGroup, isRunning, pc, todo, cur, result, whenRes, condRes, flowing >>

\* do returns an ErrFlow, which is not Permanent, and the next wait is not Stop: the
\* timer runs and do is called again
retryAgainErrFlow(s) ==
    /\ tpc[s] = "runStep"
    /\ ~retry[s].isNil
    /\ flowing[s].failed
    /\ ~MaxRetriesStop(maxCountOf(retry[s]), Tries(s))
    /\ \E late \in Lates(s), stop \in Stops(s) :
          /\ ~IsPermanent(late, stop)
          /\ harness' = Invoked(s, late, stop)
    /\ numTries' = [numTries EXCEPT ![s] = Tries(s) + 1]
    /\ retryEnd' = [retryEnd EXCEPT ![s] = "none"]
    /\ stepErr' = [stepErr EXCEPT ![s] = "ErrFlow"]
    /\ flowing' = [flowing EXCEPT ![s] = [NextDo(@) EXCEPT !.ended = @ + 1]]
    /\ UNCHANGED << config, apart, leaseBucket, status, errsMade, errs, oneStepTerminated,
                    waitGroup, isRunning, pc, todo, cur, tpc, result, whenRes, condRes,
                    doCalls, errOfCall >>

\* do returns an ErrFlow and the retry gives up: s.errs[step] = the ErrFlow
retryReturnErrFlow(s) ==
    /\ tpc[s] = "runStep"
    /\ ~retry[s].isNil
    /\ flowing[s].failed
    /\ \E why \in RetryEnds(s, "ErrFlow"), late \in Lates(s), stop \in Stops(s) :
          /\ EndsWith(why, late, stop)
          /\ retryEnd' = [retryEnd EXCEPT ![s] = why]
          /\ harness' = Invoked(s, late, stop)
    /\ errs' = RecordErr(errs, s, "ErrFlow")
    /\ stepErr' = [stepErr EXCEPT ![s] = "ErrFlow"]
    /\ numTries' = [numTries EXCEPT ![s] = Tries(s)]
    /\ flowing' = [flowing EXCEPT ![s].ended = @ + 1]
    /\ tpc' = [tpc EXCEPT ![s] = "setStatus"]
    /\ UNCHANGED << config, apart, leaseBucket, status, errsMade, oneStepTerminated,
                    waitGroup, isRunning, pc, todo, cur, result, whenRes, condRes, doCalls,
                    errOfCall >>

\* a goroutine that marks every Step as succeeded
StatusSucceeded(err) == StepStatusSucceeded

\* if err != nil { Failed } else { Succeeded }
StatusOfErr(err) == IF err # "nil" THEN StepStatusFailed ELSE StepStatusSucceeded

\* mark the Step as succeeded or failed
stepSetStatus(s) ==
    /\ tpc[s] = "setStatus"
    /\ status' = [status EXCEPT ![s] = StatusOfErr(stepErr[s])]
    /\ tpc' = [tpc EXCEPT ![s] = "unlease"]
    /\ UNCHANGED << config, aside, stepErr, leaseBucket, errsMade, errs, oneStepTerminated, waitGroup,
                    isRunning, pc, todo, cur, result, whenRes, condRes, doCalls >>

\* a goroutine that keeps its lease
UnleaseNever(b) == b

\* <-s.leaseBucket does not block
CanUnlease(b) == b.isNil \/ b.len > 0
Unlease(b) == IF b.isNil THEN b ELSE [b EXCEPT !.len = b.len - 1]

\* if s.leaseBucket != nil { <-s.leaseBucket }
stepUnlease(s) ==
    /\ tpc[s] = "unlease"
    /\ CanUnlease(leaseBucket)
    /\ leaseBucket' = Unlease(leaseBucket)
    /\ tpc' = [tpc EXCEPT ![s] = "signalTick"]
    /\ UNCHANGED << config, aside, stepErr, status, errsMade, errs, oneStepTerminated, waitGroup,
                    isRunning, pc, todo, cur, result, whenRes, condRes, doCalls >>

\* s.signalTick()
stepSignalTick(s) ==
    /\ tpc[s] = "signalTick"
    /\ CanSignal(oneStepTerminated)
    /\ oneStepTerminated' = signalTick(oneStepTerminated)
    /\ tpc' = [tpc EXCEPT ![s] = "Done"]
    /\ UNCHANGED << config, aside, stepErr, leaseBucket, status, errsMade, errs, waitGroup, isRunning, pc,
                    todo, cur, result, whenRes, condRes, doCalls >>

\* defer s.waitGroup.Done()
stepDone(s) ==
    /\ tpc[s] = "Done"
    /\ waitGroup' = waitGroup - 1
    /\ tpc' = [tpc EXCEPT ![s] = "exited"]
    /\ UNCHANGED << config, aside, stepErr, leaseBucket, status, errsMade, errs, oneStepTerminated,
                    isRunning, pc, todo, cur, result, whenRes, condRes, doCalls >>

\* ------------------------------------------------------- the loop of Run
\* for range s.oneStepTerminated: a signal is received and not every Step is terminated: tick
RunTick ==
    /\ pc = "recv"
    /\ ~oneStepTerminated.isNil /\ oneStepTerminated.len > 0
    /\ ~WorkflowIsTerminated(status)
    /\ oneStepTerminated' = [oneStepTerminated EXCEPT !.len = oneStepTerminated.len - 1]
    /\ todo' = TickOrder(status)
    /\ pc' = IF todo' = {} THEN "recv" ELSE "tick"
    /\ UNCHANGED << config, aside, leaseBucket, status, errsMade, errs, waitGroup, isRunning, cur,
                    tpc, stepErr, result, whenRes, condRes, doCalls >>

\* a signal is received and every Step is terminated: break
RunBreak ==
    /\ pc = "recv"
    /\ ~oneStepTerminated.isNil /\ oneStepTerminated.len > 0
    /\ WorkflowIsTerminated(status)
    /\ oneStepTerminated' = [oneStepTerminated EXCEPT !.len = oneStepTerminated.len - 1]
    /\ pc' = "wait"
    /\ UNCHANGED << config, aside, leaseBucket, status, errsMade, errs, waitGroup, isRunning, todo,
                    cur, tpc, stepErr, result, whenRes, condRes, doCalls >>

\* a Wait that returns at once
WaitNever(wg) == TRUE

\* s.waitGroup.Wait() does not block
WaitReturns(wg) == wg = 0

\* s.waitGroup.Wait() returns; close(s.oneStepTerminated); Run returns nil or s.errs
RunReturn ==
    /\ pc = "wait"
    /\ WaitReturns(waitGroup)
    /\ oneStepTerminated' = [oneStepTerminated EXCEPT !.closed = TRUE]
    /\ result' = Returned("Run", IF ErrsIsNil(errs) THEN "nil" ELSE "ErrWorkflow", TRUE,
                          {}, NoCycle)
    /\ isRunning' = FALSE
    /\ pc' = "idle"
    /\ UNCHANGED << config, aside, leaseBucket, status, errsMade, errs, waitGroup, todo, cur, tpc, stepErr,
                    whenRes, condRes, doCalls >>

\* ----------------------------------------------------------------- Reset
\* a Reset that leaves s.errs as it is
ResetKeepsErrs ==
    /\ pc = "idle" /\ TryLock(isRunning)
    /\ status' = [s \in Steps |-> StepStatusPending]
    /\ leaseBucket' = NilChan
    /\ oneStepTerminated' = NilChan
    /\ result' = Returned("Reset", "nil", FALSE, {}, NoCycle)
    /\ UNCHANGED << config, aside, errsMade, errs, waitGroup, isRunning, pc, todo, cur, tpc,
                    stepErr, whenRes, condRes, doCalls >>

\* a Reset that leaves s.leaseBucket as it is
ResetKeepsLeaseBucket ==
    /\ pc = "idle" /\ TryLock(isRunning)
    /\ status' = [s \in Steps |-> StepStatusPending]
    /\ errsMade' = FALSE
    /\ errs' = [s \in Steps |-> "none"]
    /\ oneStepTerminated' = NilChan
    /\ result' = Returned("Reset", "nil", FALSE, {}, NoCycle)
    /\ UNCHANGED << config, aside, leaseBucket, waitGroup, isRunning, pc, todo, cur, tpc,
                    stepErr, whenRes, condRes, doCalls >>

\* Reset, called while no Run holds the lock: every Step Pending, errs, leaseBucket and
\* the signal channel nil
Reset ==
    /\ pc = "idle" /\ TryLock(isRunning)
    /\ status' = [s \in Steps |-> StepStatusPending]
    /\ errsMade' = FALSE
    /\ errs' = [s \in Steps |-> "none"]
    /\ leaseBucket' = NilChan
    /\ oneStepTerminated' = NilChan
    /\ result' = Returned("Reset", "nil", FALSE, {}, NoCycle)
    /\ UNCHANGED << config, aside, waitGroup, isRunning, pc, todo, cur, tpc, stepErr, whenRes, condRes, doCalls >>

Next ==
    \/ RunSkipped
    \/ RunHasRun
    \/ RunUnexpectStepInitStatus
    \/ RunPreflight
    \/ \E s \in Steps : preflightScan(s)
    \/ preflightCycle
    \/ preflightPass
    \/ \E s \in Steps : tickContinue(s)
    \/ \E s \in Steps : tickCancel(s)
    \/ \E s \in Steps : tickSkip(s)
    \/ \E s \in Steps : tickStart(s)
    \/ \E s \in Steps : tickBlock(s)
    \/ tickLease
    \/ \E s \in Steps : runStep(s)
    \/ \E s \in Steps : stepSetStatus(s)
    \/ \E s \in Steps : stepUnlease(s)
    \/ \E s \in Steps : stepSignalTick(s)
    \/ \E s \in Steps : stepDone(s)
    \/ RunTick
    \/ RunBreak
    \/ RunReturn
    \/ Reset

Spec == Init /\ [][Next]_vars

\* ------------------------------------------------------- a second caller
\* Run called from another goroutine while the caller above is inside Run: the whole
\* call up to its return, or up to the start of its own preflight scan
OtherRun ==
    /\ pc # "idle"
    /\ \/ /\ ~TryLock(isRunning)
          /\ other' = "ErrWorkflowIsRunning"
          /\ UNCHANGED status
       \/ /\ TryLock(isRunning) /\ WhenReturnsFalse(wfWhen)
          /\ status' = [s \in Steps |-> StepStatusSkipped]
          /\ other' = "nil"
       \/ /\ TryLock(isRunning) /\ WhenReturnsTrue(wfWhen)
          /\ other' = IF HasRun(errsMade) THEN "ErrWorkflowHasRun"
                      ELSE IF unexpectStatusSteps(status) # {}
                           THEN "ErrUnexpectStepInitStatus"
                           ELSE "preflight"
          /\ UNCHANGED status
    /\ UNCHANGED << config, retrying, lastAdd, adds, condArg, condRet, extra, leaseBucket, errsMade,
                    errs, oneStepTerminated, waitGroup, isRunning, pc, todo, cur, tpc,
                    stepErr, result, whenRes, condRes, doCalls >>

NextCallers ==
    \/ Next
    \/ OtherRun

SpecCallers == Init /\ [][NextCallers]_vars

\* ------------------------------------------------------ a cancelled ctx
\* the goroutines of the Steps that are between `go func` and their return
Executing == {s \in Steps : tpc[s] \notin {"none", "exited"}}

\* the caller's cancel() of the ctx it gave to Run, at any moment of the Run: nothing of
\* the Workflow reads ctx.Done(); the When and the Do of a Step get the ctx and return
\* what they like
CancelCtx ==
    /\ pc # "idle"
    /\ ~ctx.done
    /\ ctx' = [done |-> TRUE, started |-> {s \in Steps : tpc[s] # "none"},
               executing |-> Executing]
    /\ UNCHANGED << config, retrying, other, lastAdd, adds, condArg, condRet, resetting, optCap,
                    stage, leaseBucket, status, errsMade, errs, oneStepTerminated, waitGroup,
                    isRunning, pc, todo, cur, tpc, stepErr, result, whenRes, condRes, doCalls >>

\* a Workflow without cycle, run once with a ctx
InitCtx ==
    /\ \E n \in 1..NumSteps :
          /\ InitFor(n, DagGraphs(n), {"nil", "Always"})
          /\ \A s \in 1..n : deps[s] = << >> => cond[s] = "nil"
    /\ wfWhen = "nil"
    /\ PlainSteps

NextCtx ==
    \/ RunPreflight
    \/ \E s \in Steps : preflightScan(s)
    \/ preflightPass
    \/ \E s \in Steps : tickContinue(s)
    \/ \E s \in Steps : tickCancel(s)
    \/ \E s \in Steps : tickSkip(s)
    \/ \E s \in Steps : tickStart(s)
    \/ \E s \in Steps : tickBlock(s)
    \/ tickLease
    \/ \E s \in Steps : runStep(s)
    \/ \E s \in Steps : stepSetStatus(s)
    \/ \E s \in Steps : stepUnlease(s)
    \/ \E s \in Steps : stepSignalTick(s)
    \/ \E s \in Steps : stepDone(s)
    \/ RunTick
    \/ RunBreak
    \/ RunReturn
    \/ CancelCtx

SpecCtx == InitCtx /\ [][NextCtx]_vars

\* ------------------------------------------------------------ WithOptions
\* w.WithOptions(WithMaxConcurrency(n)), while no Run is in progress
WithOptions(n) ==
    /\ pc = "idle"
    /\ leaseBucket' = WithMaxConcurrency(n)
    /\ optCap' = n
    /\ UNCHANGED << config, retrying, other, lastAdd, adds, condArg, condRet, ctx, resetting,
                    stage, status, errsMade, errs, oneStepTerminated, waitGroup, isRunning, pc, todo,
                    cur, tpc, stepErr, result, whenRes, condRes, doCalls >>

\* a new Workflow without cycle and without option
InitOptions ==
    /\ \E n \in 1..NumSteps : InitFor(n, DagGraphs(n), {"nil"})
    /\ wfWhen = "nil"
    /\ leaseBucket = NilChan
    /\ PlainSteps

NextOptions ==
    \/ \E n \in 1..MaxCap : WithOptions(n)
    \/ RunHasRun
    \/ RunPreflight
    \/ \E s \in Steps : preflightScan(s)
    \/ preflightPass
    \/ \E s \in Steps : tickContinue(s)
    \/ \E s \in Steps : tickCancel(s)
    \/ \E s \in Steps : tickSkip(s)
    \/ \E s \in Steps : tickStart(s)
    \/ \E s \in Steps : tickBlock(s)
    \/ tickLease
    \/ \E s \in Steps : runStep(s)
    \/ \E s \in Steps : stepSetStatus(s)
    \/ \E s \in Steps : stepUnlease(s)
    \/ \E s \in Steps : stepSignalTick(s)
    \/ \E s \in Steps : stepDone(s)
    \/ RunTick
    \/ RunBreak
    \/ RunReturn
    \/ Reset

SpecOptions == InitOptions /\ [][NextOptions]_vars

\* ------------------------------------------- Reset from another goroutine
\* what the steps of that Reset leave alone
besideReset == << config, retrying, other, lastAdd, adds, condArg, condRet, ctx, optCap, stage,
                 waitGroup, pc,
                 todo, cur, tpc, stepErr, result, whenRes, condRes, doCalls >>

\* Reset: if !s.isRunning.TryLock() { return ErrWorkflowIsRunning }
ResetIsRunning ==
    /\ rpc = "idle"
    /\ ~TryLock(isRunning)
    /\ resetRet' = "ErrWorkflowIsRunning"
    /\ UNCHANGED << besideReset, rpc, rtodo, isRunning, status, errsMade, errs, leaseBucket,
                    oneStepTerminated >>

\* Reset: s.isRunning.TryLock() takes the lock
ResetTryLock ==
    /\ rpc = "idle"
    /\ TryLock(isRunning)
    /\ isRunning' = TRUE
    /\ rpc' = "unlock"
    /\ resetRet' = "none"
    /\ UNCHANGED << besideReset, rtodo, status, errsMade, errs, leaseBucket,
                    oneStepTerminated >>

\* Reset: s.isRunning.Unlock(), not deferred: the writes that follow are made without the lock
ResetUnlock ==
    /\ rpc = "unlock"
    /\ isRunning' = FALSE
    /\ rtodo' = Steps
    /\ rpc' = "status"
    /\ UNCHANGED << besideReset, resetRet, status, errsMade, errs, leaseBucket,
                    oneStepTerminated >>

\* Reset: step.setStatus(StepStatusPending)
ResetSetStatus(s) ==
    /\ rpc = "status" /\ s \in rtodo
    /\ status' = [status EXCEPT ![s] = StepStatusPending]
    /\ rtodo' = rtodo \ {s}
    /\ UNCHANGED << besideReset, rpc, resetRet, isRunning, errsMade, errs, leaseBucket,
                    oneStepTerminated >>

\* Reset: s.errs = nil
ResetErrs ==
    /\ rpc = "status" /\ rtodo = {}
    /\ errsMade' = FALSE
    /\ errs' = [s \in Steps |-> "none"]
    /\ rpc' = "leaseBucket"
    /\ UNCHANGED << besideReset, rtodo, resetRet, isRunning, status, leaseBucket,
                    oneStepTerminated >>

\* Reset: s.leaseBucket = nil
ResetLeaseBucket ==
    /\ rpc = "leaseBucket"
    /\ leaseBucket' = NilChan
    /\ rpc' = "oneStepTerminated"
    /\ UNCHANGED << besideReset, rtodo, resetRet, isRunning, status, errsMade, errs,
                    oneStepTerminated >>

\* Reset: s.oneStepTerminated = nil; return nil
ResetReturn ==
    /\ rpc = "oneStepTerminated"
    /\ oneStepTerminated' = NilChan
    /\ resetRet' = "nil"
    /\ rpc' = "idle"
    /\ UNCHANGED << besideReset, rtodo, isRunning, status, errsMade, errs, leaseBucket >>

\* runStep: s.errs[step] = err after Reset has set s.errs to nil: assignment to entry in
\* nil map, outside catchPanicAsError: the panic ends the program
runStepNilMap(s) ==
    /\ tpc[s] = "runStep"
    /\ ~errsMade
    /\ DoReached(s)
    /\ doCalls' = [doCalls EXCEPT ![s] = doCalls[s] + 1]
    /\ tpc' = [t \in Steps |-> "panicked"]
    /\ pc' = "panicked"
    /\ UNCHANGED << config, aside, leaseBucket, status, errsMade, errs, oneStepTerminated,
                    waitGroup, isRunning, todo, cur, stepErr, result, whenRes, condRes >>

\* a Workflow of one or two Steps without cycle, new or after a Run
InitReset ==
    /\ \E n \in 1..2 : InitFor(n, DagGraphs(n), {"nil"})
    /\ wfWhen = "nil"
    /\ PlainSteps

NextReset ==
    \/ RunHasRun
    \/ RunUnexpectStepInitStatus
    \/ RunPreflight
    \/ \E s \in Steps : preflightScan(s)
    \/ preflightPass
    \/ \E s \in Steps : tickContinue(s)
    \/ \E s \in Steps : tickCancel(s)
    \/ \E s \in Steps : tickSkip(s)
    \/ \E s \in Steps : tickStart(s)
    \/ \E s \in Steps : tickBlock(s)
    \/ tickLease
    \/ \E s \in Steps : errsMade /\ runStep(s)
    \/ \E s \in Steps : runStepNilMap(s)
    \/ \E s \in Steps : stepSetStatus(s)
    \/ \E s \in Steps : stepUnlease(s)
    \/ \E s \in Steps : stepSignalTick(s)
    \/ \E s \in Steps : stepDone(s)
    \/ RunTick
    \/ RunBreak
    \/ RunReturn
    \/ ResetIsRunning
    \/ ResetTryLock
    \/ ResetUnlock
    \/ \E s \in Steps : ResetSetStatus(s)
    \/ ResetErrs
    \/ ResetLeaseBucket
    \/ ResetReturn

SpecReset == InitReset /\ [][NextReset]_vars

\* ------------------------------------------------- Run under fair scheduling
\* A Workflow of at least one Step, without cycle, with no leaseBucket or one of capacity
\* 1 or more, run once
InitLive ==
    /\ \E n \in 1..NumSteps :
          /\ InitFor(n, DagGraphs(n), {"nil", "Always"})
          /\ \A s \in 1..n : deps[s] = << >> => cond[s] = "nil"
    /\ wfWhen = "nil"
    /\ leaseBucket.isNil \/ leaseBucket.cap >= 1
    /\ PlainSteps

\* the steps of the goroutine that called Run
Coordinator ==
    \/ RunPreflight
    \/ \E s \in Steps : preflightScan(s)
    \/ preflightPass
    \/ \E s \in Steps : tickContinue(s)
    \/ \E s \in Steps : tickCancel(s)
    \/ \E s \in Steps : tickSkip(s)
    \/ \E s \in Steps : tickStart(s)
    \/ \E s \in Steps : tickBlock(s)
    \/ tickLease
    \/ RunTick
    \/ RunBreak
    \/ RunReturn

\* the steps of the goroutine tick started for the Step; its Do returns
StepGoroutine(s) ==
    /\ s \in Steps
    /\ \/ runStep(s)
       \/ stepSetStatus(s)
       \/ stepUnlease(s)
       \/ stepSignalTick(s)
       \/ stepDone(s)

NextLive ==
    \/ Coordinator
    \/ \E s \in 1..NumSteps : StepGoroutine(s)

\* the Go scheduler runs every goroutine that can take a step
Fairness ==
    /\ WF_vars(Coordinator)
    /\ \A s \in 1..NumSteps : WF_vars(StepGoroutine(s))

SpecLive == InitLive /\ [][NextLive]_vars /\ Fairness

\* --------------------------------------------------- Steps with RetryOption
RetryOptions == {RetryOption(m, f) : m \in 0..MaxRetryCount, f \in BOOLEAN}

\* A Workflow of one Step with or without a RetryOption, with or without timeout,
\* whose Do returns an error on its first k calls (on all of them for the last k), and
\* with or without a second Step, without RetryOption, that depends on it.
InitRetry ==
    /\ \E n \in 1..2 :
          /\ InitFor(n, {[s \in 1..n |-> 1..(s - 1)]}, {"nil"})
          /\ \E opt \in RetryOptions \cup {NoRetry}, t \in BOOLEAN, k \in 0..(MaxRetryCount + 1) :
                /\ retry = [s \in 1..n |-> IF s = 1 THEN opt ELSE NoRetry]
                /\ timeout = [s \in 1..n |-> s = 1 /\ t]
                /\ doScript = [s \in 1..n |-> IF s = 1 THEN FailsFirst(k) ELSE AnyDo]
    /\ wfWhen = "nil"
    /\ leaseBucket = NilChan

NextRetry ==
    \/ RunPreflight
    \/ \E s \in Steps : preflightScan(s)
    \/ preflightPass
    \/ \E s \in Steps : tickContinue(s)
    \/ \E s \in Steps : tickCancel(s)
    \/ \E s \in Steps : tickSkip(s)
    \/ \E s \in Steps : tickStart(s)
    \/ \E s \in Steps : runStep(s)
    \/ \E s \in Steps : retryAgain(s)
    \/ \E s \in Steps : retryReturn(s)
    \/ \E s \in Steps : stepSetStatus(s)
    \/ \E s \in Steps : stepUnlease(s)
    \/ \E s \in Steps : stepSignalTick(s)
    \/ \E s \in Steps : stepDone(s)
    \/ RunTick
    \/ RunBreak
    \/ RunReturn

SpecRetry == InitRetry /\ [][NextRetry]_vars

\* ------------------------------------------------------------------- Add
\* the Steps the program holds, in a Workflow or not
AllSteps == 1..NumSteps

\* a link with a data Flow (1: some Flow function)
FlowLink(e, f) == [Dependee |-> e, Flow |-> f]

\* the links a builder makes: DependsOn a Dependee with or without a Flow, or an Input
\* (nil Dependee, with a Flow)
Links == {FlowLink(e, f) : e \in AllSteps, f \in {Nil, 1}} \cup {FlowLink(Nil, 1)}

RECURSIVE SeqsUpTo(_, _)
SeqsUpTo(S, n) ==
    IF n = 0 THEN {<< >>}
    ELSE LET shorter == SeqsUpTo(S, n - 1)
         IN shorter \cup {Append(q, x) : q \in {r \in shorter : Len(r) = n - 1}, x \in S}

\* what db.Done() returns: one depender with its links, or several Steps without links
SubGraphs ==
    {[r \in {s} |-> ls] : s \in AllSteps, ls \in SeqsUpTo(Links, MaxLinks)}
        \cup {[r \in S |-> << >>] : S \in SUBSET AllSteps \ {{}}}

\* dependency.merge: the links of each depender of from are appended to the links it
\* has in d, and every Dependee becomes a key
merge(d, from) ==
    [s \in DOMAIN d \cup DOMAIN from \cup
            {e \in AllSteps : \E r \in DOMAIN from : \E i \in 1..Len(from[r]) :
                                 from[r][i].Dependee = e} |->
        (IF s \in DOMAIN d THEN d[s] ELSE << >>)
            \o (IF s \in DOMAIN from THEN from[s] ELSE << >>)]

\* for _, db := range dbs { s.deps.merge(db.Done()) }
RECURSIVE mergeAll(_, _, _)
mergeAll(d, dbs, i) ==
    IF i > Len(dbs) THEN d ELSE mergeAll(merge(d, dbs[i]), dbs, i + 1)

\* the Flows makeDoForStep applies to the depender, in order (all Dependees Succeeded)
RECURSIVE FlowsFrom(_, _)
FlowsFrom(links, i) ==
    IF i > Len(links) THEN << >>
    ELSE IF links[i].Flow # Nil THEN << links[i].Flow >> \o FlowsFrom(links, i + 1)
    ELSE FlowsFrom(links, i + 1)

Flows(d, r) == FlowsFrom(d[r], 1)

\* a new Workflow (deps nil) and Steps not yet added to it
NewWorkflow ==
    /\ deps = << >>
    /\ cond = [s \in AllSteps |-> "nil"]
    /\ wfWhen = "nil"
    /\ leaseBucket = NilChan
    /\ status = [s \in AllSteps |-> StepStatusPending]
    /\ errsMade = FALSE
    /\ errs = << >>
    /\ oneStepTerminated = NilChan
    /\ waitGroup = 0
    /\ isRunning = FALSE
    /\ pc = "idle"
    /\ todo = {}
    /\ cur = Nil
    /\ tpc = [s \in AllSteps |-> "none"]
    /\ stepErr = [s \in AllSteps |-> "unset"]
    /\ result = NoResult
    /\ whenRes = [s \in AllSteps |-> "uneval"]
    /\ condRes = [s \in AllSteps |-> "uneval"]
    /\ doCalls = [s \in AllSteps |-> 0]
    /\ retry = [s \in AllSteps |-> NoRetry]
    /\ timeout = [s \in AllSteps |-> FALSE]
    /\ doScript = [s \in AllSteps |-> AnyDo]
    /\ InitRetrying(NumSteps)

InitAdd == NewWorkflow /\ InitApart

\* Workflow.Add(dbs...)
Add(dbs) ==
    /\ adds < MaxAdds
    /\ deps' = mergeAll(deps, dbs, 1)
    /\ lastAdd' = dbs
    /\ adds' = adds + 1
    /\ UNCHANGED << cond, wfWhen, retry, timeout, doScript, retrying, other, condArg, condRet, extra,
                    leaseBucket, status, errsMade, errs, oneStepTerminated, waitGroup,
                    isRunning, pc, todo, cur, tpc, stepErr, result, whenRes, condRes, doCalls >>

NextAdd == \E dbs \in SeqsUpTo(SubGraphs, MaxDbs) \ {<< >>} : Add(dbs)

SpecAdd == InitAdd /\ [][NextAdd]_vars

\* ------------------------------------------------------- Condition calls
\* every status a StepReader can report
StepStatuses == {StepStatusPending, StepStatusRunning, StepStatusFailed, StepStatusSucceeded,
                 StepStatusCanceled, StepStatusSkipped}

\* a list of Upstreams that report any statuses
InitCond ==
    /\ NewWorkflow
    /\ other = "none"
    /\ lastAdd = NoAdd
    /\ adds = 0
    /\ condArg \in SeqsUpTo(StepStatuses, MaxUpstreams)
    /\ condRet = NoCondCall
    /\ InitExtra

\* a call of the Condition of a Step (nil: the DefaultCondition) with the list
CallCondition(kind) ==
    /\ condRet' = [cond |-> kind, ret |-> EvalCondition(kind, condArg)]
    /\ UNCHANGED << config, retrying, other, lastAdd, adds, condArg, extra, leaseBucket, status,
                    errsMade, errs, oneStepTerminated, waitGroup, isRunning, pc, todo, cur,
                    tpc, stepErr, result, whenRes, condRes, doCalls >>

NextCond == \E kind \in CondKinds : CallCondition(kind)

SpecCond == InitCond /\ [][NextCond]_vars

\* ------------------------------------------------------- flows in a Run
\* what db.Done() returns for a depender whose Dependees were declared before it: the
\* links DependsOn, ExtraDependsOn and Input make
FlowSubGraphs ==
    UNION {{[r \in {s} |-> ls] :
                ls \in SeqsUpTo({l \in Links : l.Dependee < s}, MaxLinks) \ {<< >>}} :
           s \in AllSteps}

\* the calls of Add that built the Workflow
FlowAdds ==
    {dbs \in SeqsUpTo(FlowSubGraphs, MaxDbs) \ {<< >>} :
        \E n \in AllSteps : DOMAIN mergeAll(<< >>, dbs, 1) = 1..n}

\* A Workflow of at most maxN Steps built by Add(dbs...) of dependers with Flows and
\* Inputs, the last Step with or without the Condition Always and with one of opts
InitFlowOf(maxN, opts) ==
    /\ \E dbs \in FlowAdds :
          LET d == mergeAll(<< >>, dbs, 1)
              n == Cardinality(DOMAIN d)
          IN /\ n <= maxN
             /\ InitWith(n, d, {"nil", "Always"})
             /\ lastAdd = dbs
             /\ adds = 1
             /\ \A s \in 1..n : (d[s] = << >> \/ s < n) => cond[s] = "nil"
             /\ \E opt \in opts :
                   retry = [s \in 1..n |-> IF s = n THEN opt ELSE NoRetry]
    /\ timeout = [s \in Steps |-> FALSE]
    /\ doScript = [s \in Steps |-> AnyDo]
    /\ wfWhen = "nil"
    /\ leaseBucket = NilChan
    /\ other = "none"
    /\ condArg = << >>
    /\ condRet = NoCondCall
    /\ InitExtra

NextFlow ==
    \/ RunPreflight
    \/ \E s \in Steps : preflightScan(s)
    \/ preflightPass
    \/ \E s \in Steps : tickContinue(s)
    \/ \E s \in Steps : tickCancel(s)
    \/ \E s \in Steps : tickSkip(s)
    \/ \E s \in Steps : tickStart(s)
    \/ \E s \in Steps : applyFlow(s)
    \/ \E s \in Steps : runStepErrFlow(s)
    \/ \E s \in Steps : runStep(s)
    \/ \E s \in Steps : retryAgain(s)
    \/ \E s \in Steps : retryReturn(s)
    \/ \E s \in Steps : retryAgainErrFlow(s)
    \/ \E s \in Steps : retryReturnErrFlow(s)
    \/ \E s \in Steps : stepSetStatus(s)
    \/ \E s \in Steps : stepUnlease(s)
    \/ \E s \in Steps : stepSignalTick(s)
    \/ \E s \in Steps : stepDone(s)
    \/ RunTick
    \/ RunBreak
    \/ RunReturn

\* the last Step with or without a RetryOption of one retry
InitFlow == InitFlowOf(NumSteps, {NoRetry, RetryOption(1, FALSE)})

SpecFlow == InitFlow /\ [][NextFlow]_vars

\* ------------------------------------------------------ a Stage among the Steps
\* A Workflow of one or two Steps whose last Step is a Stage, with or without a
\* RetryOption of two retries; the inner Workflow of the Stage has one Step and has or has
\* not a When
InitStage ==
    /\ \E n \in 1..StageSteps :
          /\ \E up \in DagGraphs(n) : InitWith(n, [s \in 1..n |-> LinksOf(up[s])], {"nil"})
          /\ \E opt \in {NoRetry, RetryOption(StageRetries, FALSE)} :
                retry = [s \in 1..n |-> IF s = n THEN opt ELSE NoRetry]
          /\ \E w \in BOOLEAN : stage = [NoStage EXCEPT !.step = n, !.hasWhen = w]
    /\ timeout = [s \in Steps |-> FALSE]
    /\ doScript = [s \in Steps |-> AnyDo]
    /\ wfWhen = "nil"
    /\ leaseBucket = NilChan
    /\ other = "none"
    /\ lastAdd = NoAdd
    /\ adds = 0
    /\ condArg = << >>
    /\ condRet = NoCondCall
    /\ ctx = LiveCtx
    /\ rpc = "idle"
    /\ rtodo = {}
    /\ resetRet = "none"
    /\ optCap = NoCap

NextStage ==
    \/ RunPreflight
    \/ RunHasRun
    \/ \E s \in Steps : preflightScan(s)
    \/ preflightPass
    \/ \E s \in Steps : tickContinue(s)
    \/ \E s \in Steps : tickCancel(s)
    \/ \E s \in Steps : tickStart(s)
    \/ \E s \in Steps : runStep(s)
    \/ \E s \in Steps : retryAgain(s)
    \/ \E s \in Steps : retryReturn(s)
    \/ \E s \in Steps : stepSetStatus(s)
    \/ \E s \in Steps : stepUnlease(s)
    \/ \E s \in Steps : stepSignalTick(s)
    \/ \E s \in Steps : stepDone(s)
    \/ RunTick
    \/ RunBreak
    \/ RunReturn
    \/ Reset

SpecStage == InitStage /\ [][NextStage]_vars

\* ------------------------------------------------ Flows of a Step that is retried
\* Workflows of one or two Steps whose last Step has its Do retried up to twice
RetryFlowSteps == 2
RetryFlowCount == 2

InitRetryFlow == InitFlowOf(RetryFlowSteps, {RetryOption(RetryFlowCount, FALSE)})

SpecRetryFlow == InitRetryFlow /\ [][NextFlow]_vars

\* ------------------------------------------------------ panics in a Run
\* the links of a Step whose Upstreams are the set up, each with a Flow; a Step without
\* Upstream has an Input
FlowLinksOf(up) ==
    IF up = {} THEN << FlowLink(Nil, 1) >>
    ELSE [i \in 1..Cardinality(up) |-> FlowLink(SetToSeq(up)[i], 1)]

\* A Workflow without cycle and with MaxConcurrency(1), whose Steps have no RetryOption
\* and the default Condition; every Flow and every Do may panic
InitPanic ==
    /\ \E n \in 1..NumSteps : \E up \in DagGraphs(n) :
          InitWith(n, [s \in 1..n |-> FlowLinksOf(up[s])], {"nil"})
    /\ InitApart
    /\ wfWhen = "nil"
    /\ leaseBucket = WithMaxConcurrency(1)
    /\ retry = [s \in Steps |-> NoRetry]
    /\ timeout = [s \in Steps |-> FALSE]
    /\ doScript = [s \in Steps |-> MayPanic]

\* the steps of the goroutine tick started for the Step: do with its Flows and Do
FlowGoroutine(s) ==
    /\ s \in Steps
    /\ \/ applyFlow(s)
       \/ runStepErrFlow(s)
       \/ runStep(s)
       \/ stepSetStatus(s)
       \/ stepUnlease(s)
       \/ stepSignalTick(s)
       \/ stepDone(s)

NextPanic ==
    \/ Coordinator
    \/ \E s \in 1..NumSteps : FlowGoroutine(s)

\* the Go scheduler runs every goroutine that can take a step
FairnessPanic ==
    /\ WF_vars(Coordinator)
    /\ \A s \in 1..NumSteps : WF_vars(FlowGoroutine(s))

SpecPanic == InitPanic /\ [][NextPanic]_vars /\ FairnessPanic

\* ------------------------------------------------------------ properties
\* the Upstreams of a Step, as a set
UpOf(s) == Range(listUpstreamReporterOf(deps, s))

\* the coordinator is past preflight and has not returned: the run is executing
Scheduling == pc \in {"tick", "lease", "recv", "wait"}

\* the last call was a Run that passed preflight, and it has returned
RunReturned == pc = "idle" /\ result.call = "Run" /\ result.executed

RunningSteps == {s \in Steps : status[s] = StepStatusRunning}

\* the Steps that entered Running in this Run
EnteredRunning == {s \in Steps : tpc[s] # "none"}

RECURSIVE AncestorsFrom(_, _)
AncestorsFrom(S, k) ==
    IF k = 0 THEN S ELSE AncestorsFrom(S \cup UNION {UpOf(x) : x \in S}, k - 1)

\* the Steps reached from s along one or more links, upstream
Ancestors(s) == AncestorsFrom(UpOf(s), Cardinality(Steps))

OnCycle(s) == s \in Ancestors(s)
OnOrDownstreamOfCycle(s) == OnCycle(s) \/ \E c \in Ancestors(s) : OnCycle(c)
HasDirectedCycle == \E s \in Steps : OnCycle(s)

\* C1: when a Run that passed preflight has returned, every Step's status is one of
\* Succeeded, Failed, Canceled, Skipped: none is Pending or Running.
C1_AllTerminalAfterRun ==
    RunReturned => \A s \in Steps : IsTerminated(status[s])

\* a Run has returned with a Step that ran, a Step that was Canceled and one Skipped
C1_Witness ==
    /\ RunReturned
    /\ \E s \in Steps : status[s] = StepStatusFailed
    /\ \E s \in Steps : status[s] = StepStatusCanceled
    /\ \E s \in Steps : status[s] = StepStatusSkipped

\* C2: whenever a Step's status is set to Running, every Upstream of it is already
\* terminated in the state the write is made in, whatever the interleaving.
C2_RunningAfterUpstreams ==
    [][\A d \in Steps :
          (status[d] # StepStatusRunning /\ status'[d] = StepStatusRunning)
              => \A u \in UpOf(d) : IsTerminated(status[u])]_vars

\* a Step with two Upstreams is Running
C2_Witness ==
    \E d \in Steps : status[d] = StepStatusRunning /\ Cardinality(UpOf(d)) >= 2

StatusEdges ==
    { << StepStatusPending, StepStatusRunning >>,
      << StepStatusPending, StepStatusCanceled >>,
      << StepStatusPending, StepStatusSkipped >>,
      << StepStatusRunning, StepStatusSucceeded >>,
      << StepStatusRunning, StepStatusFailed >> }

\* C3: while a run executes (from the end of preflight to the return of Run), every
\* change of a Step's status is one of Pending->Running, Pending->Canceled,
\* Pending->Skipped, Running->Succeeded, Running->Failed; so a terminated status
\* does not change and Pending and Running are each left once.
C3_OnlyStatusEdges ==
    [][Scheduling =>
          \A s \in Steps :
              status'[s] # status[s] => << status[s], status'[s] >> \in StatusEdges]_vars

\* the run is executing and holds a Step of every status but Pending
C3_Witness ==
    /\ Scheduling
    /\ \E s \in Steps : status[s] = StepStatusRunning
    /\ \E s \in Steps : status[s] = StepStatusFailed
    /\ \E s \in Steps : status[s] = StepStatusCanceled

\* C4: with MaxConcurrency(n), n >= 1, at most n Steps are Running, and so at most n
\* Do are executing, in every state.
C4_MaxConcurrency ==
    (~leaseBucket.isNil /\ leaseBucket.cap >= 1) =>
        /\ Cardinality(RunningSteps) <= leaseBucket.cap
        /\ Cardinality({s \in Steps : tpc[s] = "runStep"}) <= leaseBucket.cap

\* tick is blocked on the lease of a Step that passed its gate while as many Steps as
\* the cap allows are Running
C4_Witness ==
    /\ ~leaseBucket.isNil /\ leaseBucket.cap >= 1
    /\ pc = "lease"
    /\ Cardinality(RunningSteps) = leaseBucket.cap
    /\ status[cur] = StepStatusPending

\* C5: when a Run that passed preflight has returned, the error map has an entry for
\* exactly the Steps that entered Running in it, which are those that ended Succeeded
\* or Failed; a Canceled or Skipped Step has none.
C5_ErrKeysAreStepsThatRan ==
    RunReturned =>
        \A s \in Steps :
            /\ (errs[s] # "none") = (s \in EnteredRunning)
            /\ (errs[s] # "none") = (status[s] \in {StepStatusSucceeded, StepStatusFailed})
            /\ status[s] \in {StepStatusCanceled, StepStatusSkipped} => errs[s] = "none"

\* a Run has returned with a nil entry, a non-nil entry and Steps with no entry
C5_Witness ==
    /\ RunReturned
    /\ \E s \in Steps : errs[s] = "nil" /\ status[s] = StepStatusSucceeded
    /\ \E s \in Steps : errs[s] = "err" /\ status[s] = StepStatusFailed
    /\ \E s \in Steps : errs[s] = "none" /\ status[s] = StepStatusCanceled

\* C6: a Run that passed preflight returns nil exactly when no Step's error is non-nil,
\* which is when no Step ended Failed; otherwise it returns the error map.
C6_NilIffNoFailure ==
    RunReturned =>
        /\ result.kind \in {"nil", "ErrWorkflow"}
        /\ (result.kind = "nil") = (\A s \in Steps : errs[s] # "err")
        /\ (result.kind = "nil") = (\A s \in Steps : status[s] # StepStatusFailed)

\* a Run returned the error map although the Always Step downstream of the failure,
\* the only other Step that ran, Succeeded
C6_Witness ==
    /\ RunReturned
    /\ result.kind = "ErrWorkflow"
    /\ \E u, d \in Steps :
          /\ u \in UpOf(d) /\ cond[d] = "Always"
          /\ status[u] = StepStatusFailed /\ status[d] = StepStatusSucceeded
          /\ EnteredRunning = {u, d}

CanceledUpstream(s) ==
    \E u \in UpOf(s) : status[u] \in {StepStatusFailed, StepStatusCanceled}

\* C7: a Step with the default Condition that has an Upstream Failed or Canceled never
\* leaves Pending but to Canceled, its Do is not called and it gets no entry of the
\* error map; when the Run has returned it is Canceled.
C7_DefaultConditionCancels ==
    \A s \in Steps :
        (cond[s] = "nil" /\ CanceledUpstream(s)) =>
            /\ status[s] \in {StepStatusPending, StepStatusCanceled}
            /\ doCalls[s] = 0
            /\ errs[s] = "none"
            /\ RunReturned => status[s] = StepStatusCanceled

\* a chain of three: the first Failed, the next two were Canceled one after the other
C7_Witness ==
    /\ RunReturned
    /\ \E a, b, c \in Steps :
          /\ a \in UpOf(b) /\ UpOf(c) = {b}
          /\ cond[b] = "nil" /\ cond[c] = "nil"
          /\ status[a] = StepStatusFailed
          /\ status[b] = StepStatusCanceled
          /\ status[c] = StepStatusCanceled

\* the tick loop is at Step s, which is Pending with every Upstream terminated, and
\* this step of the coordinator finishes the visit
GateDecided(s) ==
    /\ s \in todo /\ s \notin todo'
    /\ status[s] = StepStatusPending
    /\ \A u \in UpOf(s) : IsTerminated(status[u])

\* C8: a Step whose Condition is Always is never Canceled: the visit of tick that finds
\* all its Upstreams terminated sets it Running, or Skipped when its When returns
\* false, whatever the statuses of the Upstreams; so when the Run has returned it has
\* run (Succeeded or Failed, Do called once) unless its When returned false.
C8_AlwaysRuns ==
    /\ [](\A s \in Steps :
            cond[s] = "Always" =>
                /\ status[s] # StepStatusCanceled
                /\ RunReturned =>
                      /\ status[s] \in {StepStatusSucceeded, StepStatusFailed,
                                        StepStatusSkipped}
                      /\ whenRes[s] \in {"true", "false"}
                      /\ whenRes[s] = "true" =>
                            /\ status[s] \in {StepStatusSucceeded, StepStatusFailed}
                            /\ doCalls[s] = 1)
    /\ [][\A s \in Steps :
            (cond[s] = "Always" /\ GateDecided(s)) =>
                /\ status'[s] \in {StepStatusRunning, StepStatusSkipped}
                /\ (status'[s] = StepStatusSkipped) = (whenRes'[s] = "false")]_vars

\* an Always Step ran with one Upstream Failed and another Canceled
C8_Witness ==
    /\ RunReturned
    /\ \E s \in Steps :
          /\ cond[s] = "Always" /\ doCalls[s] = 1
          /\ \E u \in UpOf(s) : status[u] = StepStatusFailed
          /\ \E u \in UpOf(s) : status[u] = StepStatusCanceled

\* C9: when Run has returned ErrCycleDependency, no Do was called and every Step is
\* Pending: none is left scanned.
C9_AllPendingAfterCycle ==
    (pc = "idle" /\ result.kind = "ErrCycleDependency") =>
        \A s \in Steps : status[s] = StepStatusPending /\ doCalls[s] = 0

\* C10: preflight over Pending Steps returns ErrCycleDependency only if the links form
\* a directed cycle and passes only if they form none, so it fails exactly on the
\* cyclic graphs; every Step it reports lies on or downstream of a cycle, and it
\* reports every such Step.
C10_CycleIffReported ==
    /\ result.kind = "ErrCycleDependency" =>
          /\ HasDirectedCycle
          /\ \A s \in Steps : (result.cycle[s] # << >>) = OnOrDownstreamOfCycle(s)
    /\ errsMade => ~HasDirectedCycle
    /\ (pc = "scan" /\ \A s \in Steps : ~CanScan(s)) =>
          (HasDirectedCycle = HasCycle(stepsInCycle(deps, status)))

\* preflight reported a Step that is on no cycle but downstream of one, and left a
\* Step out that is not
C10_Witness ==
    /\ result.kind = "ErrCycleDependency"
    /\ \E s \in Steps : result.cycle[s] # << >> /\ ~OnCycle(s)
    /\ \E s \in Steps : result.cycle[s] = << >>

\* this step is a call of Run from outside a Run: it returns at once or enters preflight
RunCalled == pc = "idle" /\ (pc' = "scan" \/ (result' # result /\ result'.call = "Run"))

\* the call was ended by the Workflow's When returning false
SkippedByWhen == result'.kind = "nil" /\ ~result'.executed

NoStepStarted == \A s \in Steps : doCalls'[s] = 0 /\ tpc'[s] = "none"

C13_SecondCallerIsRunning ==
    /\ [](/\ other \in {"none", "ErrWorkflowIsRunning"}
          /\ (pc # "idle") = isRunning)
    /\ [][other' # other =>
            /\ other' = "ErrWorkflowIsRunning"
            /\ status' = status /\ errs' = errs /\ errsMade' = errsMade
            /\ pc' = pc /\ tpc' = tpc /\ doCalls' = doCalls]_vars

\* a second caller got ErrWorkflowIsRunning while a Step was Running and another was
\* still Pending
C13_Witness ==
    /\ other = "ErrWorkflowIsRunning"
    /\ Scheduling
    /\ \E s \in Steps : status[s] = StepStatusRunning
    /\ \E s \in Steps : status[s] = StepStatusPending

\* this step is a call of Reset from outside a Run
ResetCalled == pc = "idle" /\ result' # result /\ result'.call = "Reset"

C15_WorkflowWhenSkips ==
    /\ [](wfWhen = "Skip" =>
            /\ pc = "idle" /\ ~errsMade
            /\ \A s \in Steps :
                  /\ doCalls[s] = 0 /\ tpc[s] = "none"
                  /\ status[s] \in {StepStatusPending, StepStatusSkipped})
    /\ [][(RunCalled /\ (wfWhen = "Skip" \/ SkippedByWhen)) =>
            /\ wfWhen # "nil"
            /\ result'.kind = "nil" /\ ~result'.executed
            /\ pc' = "idle"
            /\ \A s \in Steps : status'[s] = StepStatusSkipped
            /\ NoStepStarted
            /\ errs' = errs /\ errsMade' = errsMade]_vars

\* Run has returned nil on a Workflow of three linked Steps with Skip as its When:
\* every Step is Skipped and none was started
C15_Witness ==
    /\ wfWhen = "Skip"
    /\ result.call = "Run" /\ result.kind = "nil"
    /\ Cardinality(Steps) = 3
    /\ \E s \in Steps : Cardinality(UpOf(s)) = 2
    /\ \A s \in Steps : status[s] = StepStatusSkipped /\ doCalls[s] = 0

\* the Step's goroutine is past runStep: its retry, or its one call of Do, has returned
Finished(s) == tpc[s] \in {"setStatus", "unlease", "signalTick", "Done", "exited"}

\* the Step's goroutine has set the status of the Step
StatusSet(s) == tpc[s] \in {"unlease", "signalTick", "Done", "exited"}

\* the attempt cap of the Step's RetryOption: MaxCount, or the default for MaxCount 0
CapOf(s) == IF retry[s].MaxCount > 0 THEN retry[s].MaxCount ELSE DefaultMaxCount

\* C16: a Step with RetryOption{MaxCount: N}, N > 0 (no StopIf, no timeout), whose Do
\* returns an error on its first k calls, k < N, and nil then: Do is never called more
\* than k+1 times; unless the Backoff of the option returns Stop by itself, the retry
\* returns nil after exactly k+1 calls, the Step is set Succeeded with a nil entry in the
\* error map, and Run returns nil if no other Step Failed. (N = 10, k = 4: 5 calls.)
C16_RetryUntilSuccess ==
    \A s \in Steps :
        (/\ ~retry[s].isNil /\ ~retry[s].StopIf /\ ~timeout[s]
         /\ retry[s].MaxCount > 0
         /\ ~doScript[s].any /\ doScript[s].fails < retry[s].MaxCount) =>
            /\ doCalls[s] <= doScript[s].fails + 1
            /\ (Finished(s) /\ retryEnd[s] # "backoffStop") =>
                  /\ doCalls[s] = doScript[s].fails + 1
                  /\ stepErr[s] = "nil" /\ errs[s] = "nil"
                  /\ StatusSet(s) => status[s] = StepStatusSucceeded
                  /\ RunReturned =>
                        (result.kind = "nil") =
                            (\A o \in Steps \ {s} : status[o] # StepStatusFailed)

\* Run has returned nil: the Step with MaxCount 10 whose Do failed 4 times Succeeded
\* at the 5th call, and the Step downstream of it ran
C16_Witness ==
    /\ RunReturned /\ result.kind = "nil"
    /\ Cardinality(Steps) = 2
    /\ retry[1] = RetryOption(10, FALSE) /\ ~timeout[1]
    /\ doScript[1] = FailsFirst(4)
    /\ doCalls[1] = 5 /\ status[1] = StepStatusSucceeded
    /\ status[2] = StepStatusSucceeded

\* C17: a Step with a RetryOption of attempt cap N whose Do returns an error at every
\* call: Do is never called more than N+1 times; the retry returns the error of the
\* last call, which runStep puts in the error map, and the Step is set Failed; it is
\* called exactly N+1 times if nothing but the cap ends the retry. A Step without
\* RetryOption has its Do called once.
C17_RetryBounded ==
    \A s \in Steps :
        /\ (~retry[s].isNil /\ ~doScript[s].any /\ doScript[s].fails > CapOf(s)) =>
              /\ doCalls[s] <= CapOf(s) + 1
              /\ Finished(s) =>
                    /\ stepErr[s] = "err" /\ errs[s] = "err"
                    /\ errOfCall[s] = doCalls[s]
                    /\ retryEnd[s] = "maxRetries" => doCalls[s] = CapOf(s) + 1
                    /\ StatusSet(s) => status[s] = StepStatusFailed
        /\ retry[s].isNil =>
              /\ doCalls[s] <= 1
              /\ Finished(s) => doCalls[s] = 1

\* Run has returned the error map: the Do of the Step with MaxCount 3 failed 4 times, the
\* Step is Failed and the Step downstream of it Canceled
C17_Witness ==
    /\ RunReturned /\ result.kind = "ErrWorkflow"
    /\ Cardinality(Steps) = 2
    /\ retry[1] = RetryOption(3, FALSE)
    /\ doCalls[1] = 4 /\ retryEnd[1] = "maxRetries"
    /\ status[1] = StepStatusFailed /\ errs[1] = "err"
    /\ status[2] = StepStatusCanceled /\ doCalls[2] = 0

\* C18: whenever the error map has an entry, also when every entry is nil, Err() returns
\* a non-nil map holding the entries of the error map
C18_ErrNonNilWhileEntries ==
    Entries(errs) # {} =>
        /\ ~Err.isNilMap
        /\ DOMAIN Err.entries = Entries(errs)
        /\ \A s \in Entries(errs) : Err.entries[s] = errs[s]

\* an Add of the sub-graphs the last Add was given
ReAdd == adds' = adds + 1 /\ lastAdd' = lastAdd

\* C19: Add is idempotent: adding again the sub-graphs that were just added leaves the
\* graph of the Workflow as it was, and so the sequence of Flows applied to each depender
C19_AddIdempotent ==
    [][ReAdd => /\ deps' = deps
                /\ \A r \in DOMAIN deps : Flows(deps', r) = Flows(deps, r)]_vars

\* C20: Succeeded, which is also the DefaultCondition of a Step without Condition, returns
\* true exactly when no Upstream of the list is Failed or Canceled; for a list of
\* terminated Upstreams that is when every Upstream is Succeeded or Skipped; it returns
\* true for the empty (or nil) list.
C20_SucceededCondition ==
    condRet.cond \in {"nil", "Succeeded"} =>
        /\ condRet.ret = (\A i \in 1..Len(condArg) :
                              condArg[i] \notin {StepStatusFailed, StepStatusCanceled})
        /\ (\A i \in 1..Len(condArg) : IsTerminated(condArg[i])) =>
              condRet.ret = (\A i \in 1..Len(condArg) :
                                condArg[i] \in {StepStatusSucceeded, StepStatusSkipped})
        /\ condArg = << >> => condRet.ret

\* the DefaultCondition has returned true for a Skipped and a Succeeded Upstream
C20_Witness ==
    /\ condRet = [cond |-> "nil", ret |-> TRUE]
    /\ condArg = << StepStatusSkipped, StepStatusSucceeded >>

\* the statuses of a list, without their order
StatusSetOf(sts) == {sts[i] : i \in 1..Len(sts)}

\* C21: Failed returns true exactly when at least one Upstream of the list is Failed and
\* none is Canceled, whatever the order of the list; it returns false for the empty
\* list and for a list of Succeeded and Skipped Upstreams only.
C21_FailedCondition ==
    condRet.cond = "Failed" =>
        /\ condRet.ret = (/\ StepStatusFailed \in StatusSetOf(condArg)
                          /\ StepStatusCanceled \notin StatusSetOf(condArg))
        /\ condArg = << >> => ~condRet.ret
        /\ StatusSetOf(condArg) \subseteq {StepStatusSucceeded, StepStatusSkipped} =>
              ~condRet.ret

\* Failed has returned false for a list with a Failed Upstream before a Canceled one
C21_Witness ==
    /\ condRet = [cond |-> "Failed", ret |-> FALSE]
    /\ condArg = << StepStatusFailed, StepStatusSucceeded, StepStatusCanceled >>

\* C22: Run does not return while the goroutine of a Step it started is still executing,
\* and a cancelled ctx aborts and skips nothing by itself: in a Run whose ctx was
\* cancelled, as in any other, every Step is gated (a Step is Canceled only by its
\* Condition, Skipped only by its When, and started otherwise, its Do called), and Run
\* returns only when every Step is terminated and every goroutine has returned.
C22_RunWaitsForSteps ==
    /\ [](pc = "idle" => (Executing = {} /\ waitGroup = 0))
    /\ [][(pc # "idle" /\ pc' = "idle" /\ result'.executed) =>
            \A s \in Steps :
                /\ IsTerminated(status[s])
                /\ tpc[s] \in {"none", "exited"}
                /\ status[s] = StepStatusSkipped => whenRes[s] = "false"
                /\ status[s] = StepStatusCanceled =>
                      /\ whenRes[s] = "uneval"
                      /\ ~CondOf(s)
                /\ status[s] \in {StepStatusSucceeded, StepStatusFailed} <=>
                      (tpc[s] = "exited" /\ doCalls[s] = 1)]_vars

\* Run has returned; its ctx was cancelled while a Step was executing, and a Step that
\* had not been started then was started, ran its Do and Succeeded
C22_Witness ==
    /\ RunReturned
    /\ ctx.done /\ ctx.executing # {}
    /\ \E s \in Steps \ ctx.started :
          /\ UpOf(s) \cap ctx.executing # {}
          /\ doCalls[s] = 1 /\ status[s] = StepStatusSucceeded

\* C23: for a Workflow of at least one Step without cycle, whose Do all return, with no
\* leaseBucket or WithMaxConcurrency(n), n >= 1: Run is called and eventually returns,
\* with every Step terminated; the goroutine of Run does not stay blocked on the signal
\* channel or on the leaseBucket.
C23_RunReturns ==
    /\ <>(RunReturned /\ WorkflowIsTerminated(status))
    /\ (pc \in {"recv", "lease"}) ~> (pc \notin {"recv", "lease"})

\* Run has returned for three Steps without Upstream under WithMaxConcurrency(1)
C23_Witness ==
    /\ RunReturned
    /\ Cardinality(Steps) = NumSteps
    /\ \A s \in Steps : deps[s] = << >> /\ status[s] \in {StepStatusSucceeded, StepStatusFailed}
    /\ ~leaseBucket.isNil /\ leaseBucket.cap = 1

\* a step of Reset that writes the status of a Step or the error map
ResetWrites == rpc = "status" /\ (status' # status \/ rtodo' # rtodo \/ rpc' # rpc)

\* C24: Run and Reset exclude each other under the lock: a Reset called while a Run is in
\* progress returns ErrWorkflowIsRunning and writes nothing, and Reset writes no status
\* and no error map while a Run, started after the Reset was called, is in progress.
C24_RunResetExclusive ==
    /\ [][(rpc = "idle" /\ pc # "idle" /\ resetting' # resetting) =>
            /\ resetRet' = "ErrWorkflowIsRunning" /\ rpc' = "idle"
            /\ status' = status /\ errs' = errs /\ errsMade' = errsMade]_vars
    /\ [][ResetWrites => pc = "idle"]_vars

\* C25 as claimed: a cap installed with WithMaxConcurrency(n) is enforced by every Run that
\* follows, also after a Reset
C25_CapSurvivesReset ==
    optCap >= 1 => Cardinality(RunningSteps) <= optCap

\* C25: Reset preserves the graph but not the lease channel: it sets leaseBucket to nil,
\* and until WithMaxConcurrency is applied again a Run starts every Step that passes its
\* gate without waiting for a lease; the cap is enforced while leaseBucket is not nil.
C25_ResetDropsLeaseBucket ==
    /\ [][ResetCalled => (deps' = deps /\ leaseBucket'.isNil)]_vars
    /\ [](leaseBucket.isNil => pc # "lease")
    /\ [](~leaseBucket.isNil =>
            (leaseBucket.cap = optCap /\ Cardinality(RunningSteps) <= optCap))

\* in the Run that follows a Reset, two Steps are Running though WithMaxConcurrency(1)
\* was the option applied last
C25_Witness ==
    /\ optCap = 1 /\ leaseBucket.isNil
    /\ Cardinality(RunningSteps) = 2
    /\ Cardinality({s \in Steps : tpc[s] = "runStep"}) = 2

\* what the Condition of the Step returns for the statuses its Upstreams have now
CondHolds(s) ==
    EvalCondition(cond[s], StatusesOf(status, listUpstreamReporterOf(deps, s)))

\* tick visits the Step: it goes on to the next Step, or blocks for a lease for this one
TickVisits(s) == pc = "tick" /\ s \in todo /\ (s \notin todo' \/ (pc' = "lease" /\ cur' = s))

\* C26: tick visiting a Pending Step whose Upstreams are all terminated calls its
\* Condition, then its When only if the Condition returned true: Condition false sets
\* it Canceled and the When is not called; Condition true and When false set it
\* Skipped; both true set it Running (at once, or when the lease it waits for is
\* free). A Pending Step with an Upstream that is not terminated stays Pending in this
\* tick and neither its Condition nor its When is called.
C26_GateOrder ==
    /\ [][\A s \in Steps :
            (TickVisits(s) /\ status[s] = StepStatusPending) =>
                IF \E u \in UpOf(s) : ~IsTerminated(status[u])
                THEN /\ status'[s] = StepStatusPending
                     /\ condRes'[s] = "uneval" /\ whenRes'[s] = "uneval"
                ELSE /\ condRes'[s] = (IF CondHolds(s) THEN "true" ELSE "false")
                     /\ condRes'[s] = "false" =>
                           (status'[s] = StepStatusCanceled /\ whenRes'[s] = "uneval")
                     /\ condRes'[s] = "true" =>
                           /\ whenRes'[s] \in {"true", "false"}
                           /\ whenRes'[s] = "false" => status'[s] = StepStatusSkipped
                           /\ whenRes'[s] = "true" =>
                                 \/ status'[s] = StepStatusRunning
                                 \/ /\ pc' = "lease" /\ cur' = s
                                    /\ status'[s] = StepStatusPending]_vars
    /\ [][(pc = "lease" /\ pc' # "lease") =>
            (status'[cur] = StepStatusRunning /\ whenRes[cur] = "true")]_vars
    /\ [](\A s \in Steps :
            /\ whenRes[s] # "uneval" => condRes[s] = "true"
            /\ status[s] = StepStatusRunning => whenRes[s] = "true")

\* tick started a Step, which Failed, then set a Step downstream of it Canceled without
\* calling its When, and another Step Skipped
C26_Witness ==
    \E a, b, c \in Steps :
        /\ status[c] = StepStatusFailed /\ condRes[c] = "true" /\ whenRes[c] = "true"
        /\ c \in UpOf(a)
        /\ status[a] = StepStatusCanceled /\ condRes[a] = "false" /\ whenRes[a] = "uneval"
        /\ status[b] = StepStatusSkipped /\ condRes[b] = "true" /\ whenRes[b] = "false"

\* C27: a Skipped Upstream does not disqualify its downstream Steps: tick visiting a
\* Step with the default Condition whose Upstreams are all Succeeded or Skipped does
\* not cancel it: the Condition returns true and, its When returning true, the Step is
\* started (and has run when Run returns); with an Upstream Canceled the Step is set
\* Canceled.
C27_SkippedUpstreamPasses ==
    /\ [][\A s \in Steps :
            (/\ cond[s] = "nil" /\ TickVisits(s) /\ status[s] = StepStatusPending
             /\ \A u \in UpOf(s) : IsTerminated(status[u])) =>
                /\ (\A u \in UpOf(s) :
                        status[u] \in {StepStatusSucceeded, StepStatusSkipped}) =>
                      /\ condRes'[s] = "true"
                      /\ status'[s] # StepStatusCanceled
                      /\ whenRes'[s] = "true" =>
                            \/ status'[s] = StepStatusRunning
                            \/ pc' = "lease" /\ cur' = s
                /\ (\E u \in UpOf(s) : status[u] = StepStatusCanceled) =>
                      status'[s] = StepStatusCanceled]_vars
    /\ [](RunReturned =>
            \A s \in Steps :
                (/\ cond[s] = "nil"
                 /\ \A u \in UpOf(s) : status[u] \in {StepStatusSucceeded, StepStatusSkipped}) =>
                    /\ status[s] \in {StepStatusSucceeded, StepStatusFailed, StepStatusSkipped}
                    /\ status[s] = StepStatusSkipped <=> whenRes[s] = "false"
                    /\ status[s] # StepStatusSkipped => doCalls[s] = 1)

\* Run has returned: a Step with the default Condition ran and Succeeded with one Upstream
\* Skipped and the other Succeeded
C27_Witness ==
    /\ RunReturned
    /\ \E s, u, v \in Steps :
          /\ cond[s] = "nil" /\ UpOf(s) = {u, v}
          /\ status[u] = StepStatusSkipped /\ status[v] = StepStatusSucceeded
          /\ status[s] = StepStatusSucceeded /\ doCalls[s] = 1

\* the links whose Flow the current call of the Step's do has applied
AppliedLinks(s) == {flowing[s].log[k] : k \in 1..Len(flowing[s].log)}

\* the links of the Step with a Flow that have no Upstream or whose Upstream is Succeeded
\* or Failed
LinksToApply(s) ==
    {i \in 1..Len(deps[s]) :
        /\ deps[s][i].Flow # Nil
        /\ \/ deps[s][i].Dependee = Nil
           \/ status[deps[s][i].Dependee] \in {StepStatusSucceeded, StepStatusFailed}}

\* C28: when a Step runs, the Flow of a link is applied if and only if the link has no
\* Upstream or its Upstream is Succeeded or Failed: no call of do applies the Flow of
\* another link, and when do calls the Step's Do it has applied the Flow of each of
\* these links; links whose Upstream is Canceled or Skipped are passed over, and Do is
\* called all the same: a Step whose status the goroutine has set without a Flow having
\* failed has had its Do called.
C28_FlowIffSucceededOrFailed ==
    /\ [](\A s \in Steps : AppliedLinks(s) \subseteq LinksToApply(s))
    /\ [][\A s \in Steps :
            doCalls'[s] = doCalls[s] + 1 => AppliedLinks(s) = LinksToApply(s)]_vars
    /\ [](\A s \in Steps :
            (StatusSet(s) /\ flowing[s].ended = 0) => doCalls[s] >= 1)

\* Run has returned: a Step with two links, the first to a Canceled or Skipped Upstream
\* and with a Flow, the second to a Failed or Succeeded one, had the Flow of the second
\* link applied only, and its Do called
C28_Witness ==
    /\ RunReturned
    /\ \E s \in Steps :
          /\ Len(deps[s]) = 2
          /\ deps[s][1].Flow # Nil /\ deps[s][2].Flow # Nil
          /\ deps[s][1].Dependee # Nil /\ deps[s][2].Dependee # Nil
          /\ status[deps[s][1].Dependee] \in {StepStatusCanceled, StepStatusSkipped}
          /\ status[deps[s][2].Dependee] \in {StepStatusSucceeded, StepStatusFailed}
          /\ flowing[s].log = << 2 >>
          /\ doCalls[s] = 1 /\ status[s] = StepStatusSucceeded

\* the links the calls of Add gave the Step, in the order of the calls
RECURSIVE AddedLinks(_, _, _)
AddedLinks(dbs, s, k) ==
    IF k > Len(dbs) THEN << >>
    ELSE (IF s \in DOMAIN dbs[k] THEN dbs[k][s] ELSE << >>) \o AddedLinks(dbs, s, k + 1)

\* C29: for a Step that runs, the Flows of its links are applied in the order in which
\* the links were added, across the calls of Add and Inputs included: the links of the
\* Step stand in the order they were added in, and each call of do applies Flows at
\* ascending places of that order; a Flow is applied when the Upstream of its link has
\* terminated; and all of them are applied before the Step's Do in the same call of do:
\* when Do is called every Flow to apply has been applied, and no Flow is applied by
\* that call of do afterwards.
C29_FlowsInLinkOrderBeforeDo ==
    /\ [](\A s \in Steps :
            /\ deps[s] = AddedLinks(lastAdd, s, 1)
            /\ \A j, k \in 1..Len(flowing[s].log) :
                   j < k => flowing[s].log[j] < flowing[s].log[k]
            /\ \A i \in AppliedLinks(s) :
                   deps[s][i].Dependee # Nil => IsTerminated(status[deps[s][i].Dependee]))
    /\ [][\A s \in Steps :
            /\ doCalls'[s] = doCalls[s] + 1 =>
                  /\ AppliedLinks(s) = LinksToApply(s)
                  /\ flowing'[s].log \in {flowing[s].log, << >>}
            /\ (flowing'[s].log # flowing[s].log /\ flowing'[s].log # << >>) =>
                  /\ tpc[s] = "runStep" /\ doCalls'[s] = doCalls[s]
                  /\ \E i \in LinksToApply(s) :
                        flowing'[s].log = Append(flowing[s].log, i)]_vars

\* Run has returned: a Step that was added twice, with an Input first and with a link
\* with a Flow to a Succeeded Upstream then, had the two Flows applied in that order and
\* its Do called after them
C29_Witness ==
    /\ RunReturned
    /\ Len(lastAdd) = 2
    /\ \E s \in Steps :
          /\ s \in DOMAIN lastAdd[1] /\ s \in DOMAIN lastAdd[2]
          /\ lastAdd[1][s][1].Dependee = Nil
          /\ lastAdd[2][s][1].Dependee # Nil /\ lastAdd[2][s][1].Flow # Nil
          /\ status[lastAdd[2][s][1].Dependee] = StepStatusSucceeded
          /\ flowing[s].log = << 1, 2 >>
          /\ doCalls[s] = 1 /\ status[s] = StepStatusSucceeded

\* the last Flow the current call of the Step's do applied returned an error or panicked
FlowErred(s) == flowing[s].ferr # "nil"

\* the Dependee of the link whose Flow the current call of do applied last
LastFrom(s) == deps[s][flowing[s].log[Len(flowing[s].log)]].Dependee

\* C30 as stated: once a Flow of a running Step has returned an error or panicked, that
\* call of do applies no further Flow and does not call Do, the error recorded for the
\* Step is an ErrFlow whose From is the Upstream of the link, and the Step ends Failed.
C30_FlowErrorFailsStep ==
    /\ [][\A s \in Steps :
            FlowErred(s) =>
                /\ doCalls'[s] = doCalls[s]
                /\ flowing'[s].log \in {flowing[s].log, << >>}]_vars
    /\ [](\A s \in Steps :
            (StatusSet(s) /\ flowing[s].ended > 0) =>
                /\ errs[s] = "ErrFlow" /\ flowing[s].From = LastFrom(s)
                /\ status[s] = StepStatusFailed)

\* C30, amended: once a Flow of a running Step has returned an error or panicked, that
\* call of do applies no further Flow and does not call Do, and it returns an ErrFlow
\* whose From is the Upstream of the link. Without a RetryOption this error is recorded
\* and the Step ends Failed without a call of Do. With a RetryOption the ErrFlow is
\* retried like an error of Do: the Step ends with the error of the last call of do,
\* Failed with the ErrFlow recorded if that call ended in a Flow, and Succeeded with nil
\* recorded if a later call went through all Flows and a Do that returned nil.
C30_FlowErrorEndsAttempt ==
    /\ [][\A s \in Steps :
            FlowErred(s) =>
                /\ doCalls'[s] = doCalls[s]
                /\ flowing'[s].log \in {flowing[s].log, << >>}
                /\ flowing[s].failed /\ flowing[s].From = LastFrom(s)
                /\ flowing'[s] # flowing[s] =>
                      /\ stepErr'[s] = "ErrFlow"
                      /\ flowing'[s].ended = flowing[s].ended + 1
                      /\ retry[s].isNil => errs'[s] = "ErrFlow" /\ tpc'[s] = "setStatus"]_vars
    /\ [](\A s \in Steps :
            (StatusSet(s) /\ flowing[s].ended > 0) =>
                /\ errs[s] = stepErr[s]
                /\ FlowErred(s) <=> errs[s] = "ErrFlow"
                /\ FlowErred(s) => status[s] = StepStatusFailed /\ flowing[s].From = LastFrom(s)
                /\ retry[s].isNil => FlowErred(s) /\ doCalls[s] = 0
                /\ status[s] = StepStatusSucceeded <=> errs[s] = "nil"
                /\ status[s] = StepStatusSucceeded => ~retry[s].isNil /\ doCalls[s] >= 1)

\* Run has returned: the Flow of the second link of a Step without RetryOption failed
\* after the Flow of its first link: the Step is Failed with an ErrFlow from the Upstream
\* of the second link, and its Do was not called
C30_Witness ==
    /\ RunReturned
    /\ \E s \in Steps :
          /\ retry[s].isNil
          /\ flowing[s].log = << 1, 2 >> /\ FlowErred(s)
          /\ deps[s][2].Dependee # Nil /\ flowing[s].From = deps[s][2].Dependee
          /\ errs[s] = "ErrFlow" /\ status[s] = StepStatusFailed /\ doCalls[s] = 0

\* a Flow of the Step panicked in the last call of do; the Do of the Step panicked
FlowPanicked(s) == flowing[s].ferr = "ErrPanic"
DoPanicked(s) == stepErr[s] = "ErrPanic"

ScriptedErr(s, call) == IF call <= doScript[s].fails THEN "err" ELSE "nil"

\* C32: in the retry of a Step, once a call of the operation has ended after notAfter or
\* has had true from stopIf, the operation is not called again and the error of that call
\* is what the retry returns and runStep records (an error and its Permanent wrapping
\* are taken as the same error); the count passed to stopIf is 0 at the first call and
\* one more at each call that follows.
C32_DeadlineOrStopIfEndsRetry ==
    /\ [][\A s \in Steps :
            (harness[s].late \/ harness[s].stopped) =>
                /\ doCalls'[s] = doCalls[s]
                /\ harness'[s] = harness[s]
                /\ errs'[s] = errs[s]]_vars
    /\ [](\A s \in Steps :
            /\ (harness[s].late \/ harness[s].stopped) =>
                  /\ tpc[s] # "runStep"
                  /\ retryEnd[s] \in {"nil", "notAfter", "stopIf"}
                  /\ errOfCall[s] = doCalls[s]
                  /\ errs[s] = stepErr[s]
                  /\ ~doScript[s].any => errs[s] = ScriptedErr(s, doCalls[s])
            /\ ~retry[s].isNil => harness[s].count = doCalls[s]
            /\ Len(harness[s].args) = (IF retry[s].StopIf THEN doCalls[s] ELSE 0)
            /\ \A k \in 1..Len(harness[s].args) : harness[s].args[k] = k - 1)

\* Run has returned: a Step with a timeout and a StopIf whose Do always fails was called
\* three times, the third call ended after notAfter, stopIf was given 0, 1 and 2, and the
\* Step is Failed with the error of the third call although retries were left
C32_Witness ==
    /\ RunReturned
    /\ \E s \in Steps :
          /\ timeout[s] /\ retry[s].StopIf /\ retry[s].MaxCount = 5
          /\ harness[s].late /\ ~harness[s].stopped
          /\ harness[s].args = << 0, 1, 2 >>
          /\ doCalls[s] = 3 /\ errOfCall[s] = 3 /\ retryEnd[s] = "notAfter"
          /\ errs[s] = "err" /\ status[s] = StepStatusFailed

\* the Step's status becomes terminated in this step of a Run that is scheduling
Terminates(s) == Scheduling /\ ~IsTerminated(status[s]) /\ IsTerminated(status'[s])

\* C33: every terminal transition of a Step in the scheduling of a Run is followed by
\* one signal: tick sends it with the transition to Canceled or Skipped, and the
\* goroutine of the Step, which makes the transition to Succeeded or Failed, goes on to
\* give back the lease and to send it, once; a send finds the channel made, open and
\* with room, so no send blocks and none comes after the close; the channel is closed
\* only when no goroutine has its signal to send.
C33_OneSignalPerTermination ==
    /\ [][\A s \in Steps :
            /\ Terminates(s) =>
                  \/ /\ status'[s] \in {StepStatusCanceled, StepStatusSkipped}
                     /\ pc = "tick"
                     /\ oneStepTerminated'.len = oneStepTerminated.len + 1
                  \/ /\ status'[s] \in {StepStatusSucceeded, StepStatusFailed}
                     /\ tpc[s] = "setStatus" /\ tpc'[s] = "unlease"
                     /\ oneStepTerminated' = oneStepTerminated
            /\ (tpc[s] = "unlease" /\ tpc'[s] # "unlease") => tpc'[s] = "signalTick"
            /\ (tpc[s] = "signalTick" /\ tpc'[s] # "signalTick") =>
                  /\ tpc'[s] = "Done"
                  /\ oneStepTerminated'.len = oneStepTerminated.len + 1
            /\ oneStepTerminated'.len > oneStepTerminated.len =>
                  /\ oneStepTerminated'.len = oneStepTerminated.len + 1
                  /\ oneStepTerminated'.len <= oneStepTerminated.cap
                  /\ ~oneStepTerminated.closed /\ ~oneStepTerminated.isNil]_vars
    /\ [](\A s \in Steps :
            /\ Gated(s) => CanSignal(oneStepTerminated)
            /\ tpc[s] \in {"runStep", "setStatus", "unlease", "signalTick"} =>
                  /\ ~oneStepTerminated.closed /\ ~oneStepTerminated.isNil
                  /\ oneStepTerminated.len < oneStepTerminated.cap
            /\ tpc[s] = "unlease" => CanUnlease(leaseBucket))
    /\ [](Scheduling => oneStepTerminated.cap = Cardinality(Steps))

\* the first tick of a Run of three Steps has skipped a Step, and the goroutines of the
\* two others have sent their signals, before the coordinator has received one: the
\* channel is full and no send has blocked
C33_Witness ==
    /\ Scheduling
    /\ Cardinality(Steps) = 3
    /\ oneStepTerminated.len = 3 /\ ~oneStepTerminated.closed
    /\ \E s \in Steps : status[s] = StepStatusSkipped
    /\ \E s \in Steps : status[s] \in {StepStatusSucceeded, StepStatusFailed} /\ tpc[s] = "exited"

\* the status the Step ends a Run with, as its Condition over the final statuses of its
\* Upstreams, the result of its When and the error of its Do give it
FinalOf(s) ==
    IF ~CondHolds(s) THEN StepStatusCanceled
    ELSE IF whenRes[s] = "false" THEN StepStatusSkipped
    ELSE IF stepErr[s] = "nil" THEN StepStatusSucceeded
    ELSE StepStatusFailed

\* C34: the final status of every Step is independent of the scheduling: whatever the
\* order in which tick visits the Steps and however the goroutines interleave, when Run
\* has returned the status of each Step is the one that the graph, the Conditions, the
\* results of the Whens and the errors of the Dos determine (Canceled if its Condition
\* is false over the final statuses of its Upstreams, and then its When and Do were not
\* called; else Skipped if its When returned false, and then its Do was not called; else
\* Failed or Succeeded by the error of its Do), and the keys of the error map are the
\* Steps that are Succeeded or Failed.
C34_FinalStatusDetermined ==
    [](RunReturned =>
        /\ \A s \in Steps :
              /\ status[s] = FinalOf(s)
              /\ status[s] = StepStatusCanceled => whenRes[s] = "uneval" /\ doCalls[s] = 0
              /\ status[s] = StepStatusSkipped => stepErr[s] = "unset" /\ doCalls[s] = 0
              /\ status[s] \in {StepStatusSucceeded, StepStatusFailed} =>
                    whenRes[s] = "true" /\ doCalls[s] = 1
        /\ Entries(errs) =
              {s \in Steps : status[s] \in {StepStatusSucceeded, StepStatusFailed}})

\* Run has returned: two Steps without Upstream ran side by side, one Failed and one
\* Succeeded, and the Step below both, with the default Condition, is Canceled
C34_Witness ==
    /\ RunReturned
    /\ \E s, u, v \in Steps :
          /\ UpOf(s) = {u, v} /\ UpOf(u) = {} /\ UpOf(v) = {}
          /\ cond[s] = "nil"
          /\ status[u] = StepStatusFailed /\ status[v] = StepStatusSucceeded
          /\ status[s] = StepStatusCanceled /\ Entries(errs) = {u, v}

\* the coordinator waits for a signal that nothing will send: the channel is empty and
\* no goroutine of a Step is left to signal
BlockedOnSignal ==
    /\ pc = "recv"
    /\ oneStepTerminated.len = 0
    /\ \A s \in Steps : tpc[s] \in {"none", "Done", "exited"}

\* C35: Run on a Workflow without Steps returns nil instead of blocking: it never waits
\* for a signal that nothing will send.
C35_EmptyRunReturns == Steps = {} => ~BlockedOnSignal

\* C36: whenever a Step is Succeeded or Failed, the error map holds its entry, and the
\* entry is non-nil exactly when the Step is Failed.
C36_ErrEntryBeforeTerminalStatus ==
    \A s \in Steps :
        status[s] \in {StepStatusSucceeded, StepStatusFailed} =>
            /\ errsMade
            /\ s \in Entries(errs)
            /\ (errs[s] # "nil") <=> (status[s] = StepStatusFailed)

C36_Witness ==
    \E s, t \in Steps :
        /\ status[s] = StepStatusFailed /\ errs[s] \notin {"none", "nil"}
        /\ status[t] = StepStatusSucceeded /\ errs[t] = "nil"

\* how often i stands in the sequence
CountOf(seq, i) == Cardinality({k \in 1..Len(seq) : seq[k] = i})

\* the call of do under way has ended at the Flow of a link before link i
EndingBefore(s, i) ==
    /\ tpc[s] = "runStep" /\ flowing[s].failed
    /\ flowing[s].log[Len(flowing[s].log)] < i

\* the calls of do the harness has counted that ended at a Flow of a link before link i
EndedBefore(s, i) ==
    Cardinality({k \in 1..Len(flowing[s].bad) : flowing[s].bad[k] < i})
        - (IF EndingBefore(s, i) THEN 1 ELSE 0)

\* the calls of do that came to link i: every call the harness has counted that did not
\* end at a Flow before i, and the call under way once it has applied the Flow of i
ReachedBy(s, i) ==
    HarnessOf(s).count - EndedBefore(s, i)
        + (IF tpc[s] = "runStep" /\ i \in AppliedLinks(s) THEN 1 ELSE 0)

\* C37: with a RetryOption, every call of do by the retry applies the Flows of all the
\* links to apply, in link order, before it calls Do; the Flow of a link has run as often
\* as calls of do came to it.
C37_RetryReappliesFlows ==
    /\ [][\A s \in Steps :
            (~retry[s].isNil /\ doCalls'[s] = doCalls[s] + 1) =>
                /\ AppliedLinks(s) = LinksToApply(s)
                /\ \A j, k \in 1..Len(flowing[s].log) :
                       j < k => flowing[s].log[j] < flowing[s].log[k]]_vars
    /\ [](\A s \in Steps :
            (~retry[s].isNil /\ tpc[s] # "none") =>
                \A i \in 1..Len(deps[s]) :
                    CountOf(flowing[s].ran, i) =
                        IF i \in LinksToApply(s) THEN ReachedBy(s, i) ELSE 0)

C37_Witness ==
    \E s \in Steps :
        /\ ~retry[s].isNil /\ StatusSet(s)
        /\ doCalls[s] = 2 /\ flowing[s].ended = 1
        /\ flowing[s].ran = << 1, 2, 1, 1, 2 >>
        /\ flowing[s].bad = << 1 >>

\* WithMaxConcurrency(n) with n >= 1 is in force
Leasing == ~leaseBucket.isNil /\ leaseBucket.cap >= 1

\* the Steps whose lease the coordinator has acquired and whose goroutine has not
\* released it
LeaseHolders == {s \in Steps : tpc[s] \in {"runStep", "setStatus", "unlease"}}

\* C38: with WithMaxConcurrency(n), n >= 1, the leases in the bucket are those of the
\* Steps started and not yet through their release, each released once by the Step's
\* own goroutine after the status of the Step became terminal: Running Steps <= leases
\* held <= n at all times, and the bucket is empty when Run returns.
C38_LeasesHeldAndReleased ==
    /\ [](Leasing =>
            /\ leaseBucket.len = Cardinality(LeaseHolders)
            /\ Cardinality({s \in Steps : status[s] = StepStatusRunning}) <= leaseBucket.len
            /\ leaseBucket.len <= leaseBucket.cap
            /\ (pc = "idle" => leaseBucket.len = 0))
    /\ [][(Leasing /\ leaseBucket' # leaseBucket /\ ~leaseBucket'.isNil) =>
            \/ /\ leaseBucket'.len = leaseBucket.len + 1
               /\ \E s \in Steps :
                     /\ tpc[s] = "none" /\ tpc'[s] = "runStep"
                     /\ status'[s] = StepStatusRunning
            \/ /\ leaseBucket'.len = leaseBucket.len - 1
               /\ \E s \in Steps :
                     /\ tpc[s] = "unlease" /\ tpc'[s] = "signalTick"
                     /\ status[s] \in {StepStatusSucceeded, StepStatusFailed}]_vars

C38_Witness ==
    /\ Leasing
    /\ leaseBucket.len = leaseBucket.cap
    /\ pc = "lease"
    /\ \E s \in Steps : tpc[s] = "unlease" /\ status[s] = StepStatusFailed

\* this step is a call of the Do of the Stage s
StageDo(s) == stage.step = s /\ doCalls'[s] = doCalls[s] + 1

\* C39 as stated: a Stage runs its inner Workflow at most once, and every Do of the
\* Stage after the inner Workflow has completed a run fails with ErrWorkflowHasRun
\* without running an inner Step.
C39_StageDoFailsWithHasRun ==
    /\ [](stage.executed <= 1)
    /\ [][\A s \in Steps :
            (StageDo(s) /\ stage.errsMade) =>
                /\ stage'.executed = stage.executed
                /\ stage'.ret = "ErrWorkflowHasRun"
                /\ stepErr'[s] = "ErrWorkflowHasRun"]_vars

\* C39 amended: a Stage runs its inner Workflow at most once; no retry and no Reset of
\* the outer Workflow resets the inner one; a Do of the Stage after the inner Workflow
\* has completed a run runs no inner Step, and it fails with ErrWorkflowHasRun unless the
\* inner Workflow has a When that returns false in that call: then Do returns nil and
\* the inner Step is set to Skipped.
C39_StageRunsInnerOnce ==
    /\ [](stage.executed <= 1)
    /\ [][stage.errsMade => stage'.errsMade]_vars
    /\ [][\A s \in Steps :
            (StageDo(s) /\ stage.errsMade) =>
                /\ stage'.executed = stage.executed
                /\ \/ /\ stage'.when = "true"
                      /\ stage'.ret = "ErrWorkflowHasRun"
                      /\ stepErr'[s] = "ErrWorkflowHasRun"
                   \/ /\ stage.hasWhen /\ stage'.when = "false"
                      /\ stage'.ret = "nil"
                      /\ stepErr'[s] = "nil"
                      /\ stage'.status = StepStatusSkipped]_vars

\* the inner Run succeeded, so the Stage was not retried: after a Reset of the outer
\* Workflow the Stage was run again, and its Do failed with ErrWorkflowHasRun
C39_Witness ==
    /\ RunReturned
    /\ stage.step # Nil
    /\ stage.executed = 1 /\ stage.status = StepStatusSucceeded
    /\ stage.ret = "ErrWorkflowHasRun"
    /\ status[stage.step] = StepStatusFailed
    /\ errs[stage.step] = "ErrWorkflowHasRun"

\* this step is a call of Run that returns without a tick
RunReturnsAtOnce == pc = "idle" /\ pc' = "idle" /\ result' # result /\ result'.call = "Run"

\* C40: the Workflow-level When is tested before preflight. A Run whose When returns
\* false returns nil and sets every Step to Skipped, whatever the graph, the error map
\* and the statuses are, and leaves the error map as it was: a Workflow whose When
\* always returns false never enters preflight and every Run of it returns nil, and a
\* Run that returns nil without a tick has set every Step to Skipped, statuses of an
\* earlier Run included, and has kept the error map; a Run refused by preflight had a
\* When that returned true and changes no status.
C40_WhenPrecedesPreflight ==
    /\ [](wfWhen = "Skip" =>
            /\ pc = "idle"
            /\ result.call = "Run" => result.kind = "nil")
    /\ [][RunReturnsAtOnce =>
            IF result'.kind = "nil"
            THEN /\ WhenReturnsFalse(wfWhen)
                 /\ \A s \in Steps : status'[s] = StepStatusSkipped
                 /\ errs' = errs /\ errsMade' = errsMade
            ELSE /\ WhenReturnsTrue(wfWhen)
                 /\ status' = status]_vars

\* a Run skipped by the When after a Run that failed: the statuses are Skipped, the
\* error map of the earlier Run is still there
C40_Witness ==
    /\ pc = "idle" /\ result.call = "Run" /\ result.kind = "nil" /\ ~result.executed
    /\ errsMade
    /\ \E s \in Steps : errs[s] = "err" /\ status[s] = StepStatusSkipped
    /\ \A s \in Steps : status[s] = StepStatusSkipped

====
